---- MODULE Spec2Model ----
(***************************************************************************)
(* Model of the Gaussian-basis integral wrapper of dqc:                    *)
(*   - the derivative-shortcut name algebra (hamilton/lcintwrap.py),       *)
(*   - the basis environment, its shell-subset views and the centring      *)
(*     scope (hamilton/intor/lcintwrap.py, hamilton/lcintwrap.py),         *)
(*   - the control flow of the one- and two-electron autograd functions.   *)
(* A Python str is a sequence of one-character strings, so that find,      *)
(* rfind, replace, split and the regular expressions of the source act on  *)
(* characters as they do in Python.                                        *)
(***************************************************************************)
EXTENDS Integers, Sequences, FiniteSets, TLC

VARIABLES
    s1,       \* a shortcut name (argument s1 of the *_shortname_equiv functions)
    s2,       \* a second shortcut name (argument s2)
    d1,       \* derivations applied to obtain s1, counted per operand position
    d2,       \* derivations applied to obtain s2, counted per operand position
    nerr,     \* exception raised by the last name derivation ("none" if none)
    bw,       \* outcome of the last _Int2eFunction.backward on shortcut s1
    wrapper,  \* the LibcintWrapper object (its fields), or NoWrapper
    subset,   \* the SubsetLibcintWrapper made by the last successful slicing
    index,    \* the argument handed to LibcintWrapper.__getitem__
    last,     \* the last method call on wrapper or subset and its outcome
    fw,       \* the _Int1eFunction.forward call in progress and where it stands
    pending,  \* the forward calls the backward in progress has still to make
    scope,    \* the centring scopes entered and not yet left
    ctx       \* what the last completed forward saved for its backward

namevars == <<s1, s2, d1, d2, nerr, bw>>
envvars == <<wrapper, subset, index, last>>
procvars == <<fw, pending, scope, ctx>>
vars == <<s1, s2, d1, d2, nerr, bw, wrapper, subset, index, last, fw, pending, scope, ctx>>

----------------------------------------------------------------------------
(* Bounds of the model *)

\* largest number of derivative-name derivations applied to one shortcut
MaxDeriv == 3

\* largest number of atoms of an environment
MaxAtoms == 2

\* largest number of shells of one atom
MaxShells == 2

\* largest angular momentum of a shell
MaxAngmom == 2

\* largest number of primitives (gauss) of a shell
MaxGauss == 2

\* largest absolute value of a slice bound
MaxIdx == 2

\* largest angular momentum of a shell of an environment that is sliced
MaxSliceAngmom == 1

\* largest number of "ip" markers of a shortcut whose backward is run
MaxOrder == 2

----------------------------------------------------------------------------
(* Python strings *)

\* the derivative marker "ip"
IP == <<"i", "p">>

\* one-electron base names: overlap, kinetic, nuclattr and the rinv integral
Int1eBaseNames ==
    { <<"o","v","l","p">>, <<"k","i","n">>, <<"n","u","c">>, <<"r","i","n","v">> }

\* two-electron base name used by elrep
Int2eBaseName == <<"a","r","1","2","b">>

\* s[i:] of Python with 0-based i in 0..len(s)
StrFrom(s, i) == SubSeq(s, i + 1, Len(s))

\* s[:i] of Python with 0-based i in 0..len(s)
StrTo(s, i) == SubSeq(s, 1, i)

\* s.startswith(pat, i): pat occurs in s at 0-based offset i
OccursAt(s, pat, i) ==
    /\ i >= 0
    /\ i + Len(pat) <= Len(s)
    /\ \A k \in 1..Len(pat) : s[i + k] = pat[k]

\* s.find(pat): lowest 0-based offset of pat in s, -1 when absent
StrFind(s, pat) ==
    LET hits == { i \in 0..Len(s) : OccursAt(s, pat, i) }
    IN  IF hits = {} THEN -1
        ELSE CHOOSE i \in hits : \A j \in hits : i <= j

\* s.rfind(pat): highest 0-based offset of pat in s, -1 when absent
StrRFind(s, pat) ==
    LET hits == { i \in 0..Len(s) : OccursAt(s, pat, i) }
    IN  IF hits = {} THEN -1
        ELSE CHOOSE i \in hits : \A j \in hits : i >= j

\* pat in s
StrContains(s, pat) == StrFind(s, pat) >= 0

\* s.replace(pat, rep): every non-overlapping occurrence, left to right
RECURSIVE StrReplace(_, _, _)
StrReplace(s, pat, rep) ==
    IF s = <<>> THEN <<>>
    ELSE IF OccursAt(s, pat, 0)
         THEN rep \o StrReplace(StrFrom(s, Len(pat)), pat, rep)
         ELSE <<Head(s)>> \o StrReplace(Tail(s), pat, rep)

\* s.split(sep) for a one-character separator: the list of the pieces
RECURSIVE StrSplit(_, _)
StrSplit(s, sep) ==
    LET i == StrFind(s, <<sep>>)
    IN  IF i < 0 THEN <<s>>
        ELSE <<StrTo(s, i)>> \o StrSplit(StrFrom(s, i + 1), sep)

\* len(re.findall("(pat)", s)): non-overlapping occurrences, left to right
RECURSIVE CountAnywhere(_, _)
CountAnywhere(s, pat) ==
    IF Len(s) < Len(pat) THEN 0
    ELSE IF OccursAt(s, pat, 0)
         THEN 1 + CountAnywhere(StrFrom(s, Len(pat)), pat)
         ELSE CountAnywhere(Tail(s), pat)

\* len(re.findall("^(?:pat)*(?:pat)?", s)[0]) // len(pat): the greedy run of
\* pat at the very start of s
RECURSIVE CountAtStart(_, _)
CountAtStart(s, pat) ==
    IF OccursAt(s, pat, 0)
    THEN 1 + CountAtStart(StrFrom(s, Len(pat)), pat)
    ELSE 0

\* len(re.findall("(?:pat)?(?:pat)*$", s)[0]) // len(pat): the first match is
\* the leftmost offset from which the rest of s is a run of pat up to the
\* end, i.e. the longest run of pat ending s
RECURSIVE CountAtEnd(_, _)
CountAtEnd(s, pat) ==
    IF OccursAt(s, pat, Len(s) - Len(pat))
    THEN 1 + CountAtEnd(StrTo(s, Len(s) - Len(pat)), pat)
    ELSE 0

\* _calc_pattern_occurence(s, pattern, at_start, at_end)
_calc_pattern_occurence(s, pattern, at_start, at_end) ==
    IF at_start THEN CountAtStart(s, pattern)
    ELSE IF at_end THEN CountAtEnd(s, pattern)
    ELSE CountAnywhere(s, pattern)

Min2(a, b) == IF a <= b THEN a ELSE b
Max2(a, b) == IF a >= b THEN a ELSE b

----------------------------------------------------------------------------
(* Name derivation manager functions *)

\* value standing for "raise RuntimeError(Unknown derivmode)"
RuntimeError == <<"RuntimeError">>

\* _get_int1e_deriv_shortname(shortname, derivmode)
_get_int1e_deriv_shortname(shortname, derivmode) ==
    IF derivmode = "r1" THEN IP \o shortname
    ELSE IF derivmode = "r2" THEN shortname \o IP
    ELSE RuntimeError

\* the equivalence test with the comparison of the maxima dropped
_int1e_shortname_equiv_minonly(a, b) ==
    LET n_ip_start1 == _calc_pattern_occurence(a, IP, TRUE, FALSE)
        n_ip_end1   == _calc_pattern_occurence(a, IP, FALSE, TRUE)
        n_ip_start2 == _calc_pattern_occurence(b, IP, TRUE, FALSE)
        n_ip_end2   == _calc_pattern_occurence(b, IP, FALSE, TRUE)
    IN  Min2(n_ip_start1, n_ip_end1) = Min2(n_ip_start2, n_ip_end2)

\* _int1e_shortname_equiv(s1, s2)
_int1e_shortname_equiv(a, b) ==
    LET n_ip_start1 == _calc_pattern_occurence(a, IP, TRUE, FALSE)
        n_ip_end1   == _calc_pattern_occurence(a, IP, FALSE, TRUE)
        n_ip_start2 == _calc_pattern_occurence(b, IP, TRUE, FALSE)
        n_ip_end2   == _calc_pattern_occurence(b, IP, FALSE, TRUE)
    IN  /\ Min2(n_ip_start1, n_ip_end1) = Min2(n_ip_start2, n_ip_end2)
        /\ Max2(n_ip_start1, n_ip_end1) = Max2(n_ip_start2, n_ip_end2)

\* the name derivation with "ra2" inserting at the 'a' instead of after it
_get_int2e_deriv_shortname_at_a(shortname, derivmode) ==
    IF derivmode = "ra1" THEN IP \o shortname
    ELSE IF derivmode = "ra2" THEN
        LET idx_a == StrFind(shortname, <<"a">>)
        IN  StrTo(shortname, idx_a) \o IP \o StrFrom(shortname, idx_a)
    ELSE IF derivmode = "rb1" THEN
        LET idx_b == StrRFind(shortname, <<"b">>)
        IN  StrTo(shortname, idx_b) \o IP \o StrFrom(shortname, idx_b)
    ELSE IF derivmode = "rb2" THEN shortname \o IP
    ELSE RuntimeError

\* _get_int2e_deriv_shortname(shortname, derivmode)
_get_int2e_deriv_shortname(shortname, derivmode) ==
    IF derivmode = "ra1" THEN IP \o shortname
    ELSE IF derivmode = "ra2" THEN
        LET idx_a == StrFind(shortname, <<"a">>)
        IN  StrTo(shortname, idx_a + 1) \o IP \o StrFrom(shortname, idx_a + 1)
    ELSE IF derivmode = "rb1" THEN
        LET idx_b == StrRFind(shortname, <<"b">>)
        IN  StrTo(shortname, idx_b) \o IP \o StrFrom(shortname, idx_b)
    ELSE IF derivmode = "rb2" THEN shortname \o IP
    ELSE RuntimeError

\* _int2e_parse_pattern(s, pattern)
_int2e_parse_pattern(s, pattern) ==
    LET t  == StrReplace(StrReplace(StrReplace(s, <<"r","1","2">>, <<"|">>),
                                    <<"a">>, <<"|">>), <<"b">>, <<"|">>)
        cs == StrSplit(t, "|")
    IN  [i \in 1..Len(cs) |-> _calc_pattern_occurence(cs[i], pattern, FALSE, FALSE)]

\* a mis-set weight of the pair encoding: (2, 0) and (1, 1) collide
offset_unit == 1

\* the local constant offset of _int2e_shortname_equiv
offset == 100

\* Optional[List[Tuple[int, int]]]: Python's None, and a list of axis pairs
None == [isNone |-> TRUE, axes |-> <<>>]
AxesList(l) == [isNone |-> FALSE, axes |-> l]

\* the body with the swap of the left part decided by the test of the
\* right part
Int2eEquivPatterns_onetest(p1, p2) ==
    LET l1 == Max2(p1[1], p1[2]) * offset + Min2(p1[1], p1[2])
        r1 == Max2(p1[3], p1[4]) * offset + Min2(p1[3], p1[4])
        l2 == Max2(p2[1], p2[2]) * offset + Min2(p2[1], p2[2])
        r2 == Max2(p2[3], p2[4]) * offset + Min2(p2[3], p2[4])
        ll_equal == l1 = l2
        rr_equal == r1 = r2
        lr_equal == l1 = r2
        rl_equal == r1 = l2
    IN  IF ~((ll_equal /\ rr_equal) \/ (lr_equal /\ rl_equal)) THEN None
        ELSE IF ~(ll_equal /\ rr_equal)
        THEN AxesList(<<<<-4, -2>>, <<-3, -1>>>>
             \o (IF p1[1] # p2[3] THEN <<<<-1, -2>>>> ELSE <<>>)
             \o (IF p1[1] # p2[3] THEN <<<<-3, -4>>>> ELSE <<>>))
        ELSE AxesList((IF p1[1] # p2[1] THEN <<<<-3, -4>>>> ELSE <<>>)
             \o (IF p1[3] # p2[3] THEN <<<<-1, -2>>>> ELSE <<>>))

\* _int2e_shortname_equiv, lines 689-716: the body after the two patterns
\* p1, p2 have been parsed
Int2eEquivPatterns(p1, p2) ==
    LET l1 == Max2(p1[1], p1[2]) * offset + Min2(p1[1], p1[2])
        r1 == Max2(p1[3], p1[4]) * offset + Min2(p1[3], p1[4])
        l2 == Max2(p2[1], p2[2]) * offset + Min2(p2[1], p2[2])
        r2 == Max2(p2[3], p2[4]) * offset + Min2(p2[3], p2[4])
        ll_equal == l1 = l2
        rr_equal == r1 = r2
        lr_equal == l1 = r2
        rl_equal == r1 = l2
    IN  IF ~((ll_equal /\ rr_equal) \/ (lr_equal /\ rl_equal)) THEN None
        ELSE IF ~(ll_equal /\ rr_equal)
        THEN AxesList(<<<<-4, -2>>, <<-3, -1>>>>
             \o (IF p1[1] # p2[3] THEN <<<<-1, -2>>>> ELSE <<>>)
             \o (IF p1[3] # p2[1] THEN <<<<-3, -4>>>> ELSE <<>>))
        ELSE AxesList((IF p1[1] # p2[1] THEN <<<<-3, -4>>>> ELSE <<>>)
             \o (IF p1[3] # p2[3] THEN <<<<-1, -2>>>> ELSE <<>>))

\* _int2e_shortname_equiv(s1, s2): None, or the list of axis pairs to swap
_int2e_shortname_equiv(a, b) ==
    Int2eEquivPatterns(_int2e_parse_pattern(a, IP), _int2e_parse_pattern(b, IP))

\* a.transpose(i, j) acting on the labels of the trailing four axes of a
\* tensor: axis -4 is entry 1 of the tuple, axis -1 is entry 4
TransposeAxes(t, axis2) ==
    LET i == 5 + axis2[1]
        j == 5 + axis2[2]
    IN  [k \in 1..4 |-> IF k = i THEN t[j] ELSE IF k = j THEN t[i] ELSE t[k]]

\* _transpose(a, axes): the swaps applied in list order
RECURSIVE _transpose(_, _)
_transpose(t, axes) ==
    IF axes = <<>> THEN t
    ELSE _transpose(TransposeAxes(t, Head(axes)), Tail(axes))

----------------------------------------------------------------------------
(* The basis environment: LibcintWrapper.__init__                           *)
(* Tables keep Python's 0-based indices and pointers as their values; the   *)
(* TLA+ sequences holding them are 1-based, so entry k of a Python list is  *)
(* element k + 1 of the sequence.  A float is a record: Num(x) is the       *)
(* number x, and [num |-> c, fac |-> l, alpha |-> a] is the normalized      *)
(* coefficient c * sqrt(factor[l] * (2 * a) ** (l + 1.5)).                  *)

NDIM == 3
PTR_RINV_ORIG == 4

\* initial padding of env (ptr_env = 20)
PTR_ENV_START == 20

\* number of entries of the factor table of _normalize_basis
NFACTOR == 7

Num(x) == [num |-> x, fac |-> -1, alpha |-> 0]

\* a list of floats from a list of input numbers
NumSeq(xs) == [k \in 1..Len(xs) |-> Num(xs[k])]

\* list[i] of Python for an index that may be negative
PyIndex(i, n) == IF i < 0 THEN i + n ELSE i

\* _normalize_basis that normalizes whatever basis_normalized says
_normalize_basis_always(basis_normalized, alpha, coeff, angmom) ==
    [num |-> coeff, fac |-> PyIndex(angmom, NFACTOR), alpha |-> alpha]

\* _normalize_basis for one primitive (alpha, coeff) of a shell
_normalize_basis(basis_normalized, alpha, coeff, angmom) ==
    IF basis_normalized THEN Num(coeff)
    ELSE [num |-> coeff, fac |-> PyIndex(angmom, NFACTOR), alpha |-> alpha]

\* normcoeff: _normalize_basis over the primitives of a shell
NormCoeffs(basis_normalized, shell) ==
    [k \in 1..Len(shell.alphas) |->
        _normalize_basis(basis_normalized, shell.alphas[k], shell.coeffs[k],
                         shell.angmom)]

\* _normalize_basis raises IndexError at factor[angmom] when the table has
\* no such entry; a normalized basis never reads the table
NormalizeRaises(basis_normalized, angmom) ==
    ~basis_normalized /\ (angmom >= NFACTOR \/ angmom < -NFACTOR)

\* the lists of __init__ before the loop over the atoms
EmptyLists ==
    [ptr_env |-> PTR_ENV_START,
     atm_list |-> <<>>,
     env_list |-> [k \in 1..PTR_ENV_START |-> Num(0)],
     bas_list |-> <<>>,
     allpos |-> <<>>, allalphas |-> <<>>, allcoeffs |-> <<>>,
     shell_to_atom |-> <<>>, ngauss_at_shell |-> <<>>]

\* __init__, lines 50-69: the atom record, its coordinates and a zero in env
AddAtomEnv(acc, iatom, atombasis) ==
    [acc EXCEPT
        !.atm_list = Append(@, <<atombasis.atomz, acc.ptr_env, 1,
                                 acc.ptr_env + NDIM, 0, 0>>),
        !.env_list = @ \o NumSeq(atombasis.pos) \o <<Num(0)>>,
        !.ptr_env = @ + NDIM + 1,
        !.allpos = Append(@, NumSeq(atombasis.pos)),
        !.shell_to_atom = @ \o [k \in 1..Len(atombasis.bases) |-> iatom]]

\* one shell record with ptr_env advanced past the exponents only
AddShell_halfstep(acc, iatom, shell, basis_normalized) ==
    [acc EXCEPT
        !.bas_list = Append(@, <<iatom, shell.angmom, Len(shell.alphas), 1, 0,
                                 acc.ptr_env, acc.ptr_env + Len(shell.alphas), 0>>),
        !.env_list = @ \o NumSeq(shell.alphas) \o NormCoeffs(basis_normalized, shell),
        !.ptr_env = @ + Len(shell.alphas),
        !.allalphas = @ \o NumSeq(shell.alphas),
        !.allcoeffs = @ \o NormCoeffs(basis_normalized, shell),
        !.ngauss_at_shell = Append(@, Len(shell.alphas))]

\* __init__, lines 72-88: one shell record, its exponents and coefficients
AddShell(acc, iatom, shell, basis_normalized) ==
    [acc EXCEPT
        !.bas_list = Append(@, <<iatom, shell.angmom, Len(shell.alphas), 1, 0,
                                 acc.ptr_env, acc.ptr_env + Len(shell.alphas), 0>>),
        !.env_list = @ \o NumSeq(shell.alphas) \o NormCoeffs(basis_normalized, shell),
        !.ptr_env = @ + 2 * Len(shell.alphas),
        !.allalphas = @ \o NumSeq(shell.alphas),
        !.allcoeffs = @ \o NormCoeffs(basis_normalized, shell),
        !.ngauss_at_shell = Append(@, Len(shell.alphas))]

\* the loop over the shells of one atom
RECURSIVE AddShells(_, _, _, _)
AddShells(acc, iatom, bases, basis_normalized) ==
    IF bases = <<>> THEN acc
    ELSE AddShells(AddShell(acc, iatom, Head(bases), basis_normalized),
                   iatom, Tail(bases), basis_normalized)

\* the loop over the atoms, from atom iatom on
RECURSIVE AddAtoms(_, _, _, _)
AddAtoms(acc, atombases, iatom, basis_normalized) ==
    IF iatom >= Len(atombases) THEN acc
    ELSE AddAtoms(AddShells(AddAtomEnv(acc, iatom, atombases[iatom + 1]),
                            iatom, atombases[iatom + 1].bases, basis_normalized),
                  atombases, iatom + 1, basis_normalized)

\* _nao_at_shell(sh): CINTcgto_spheric / CINTcgto_cart of libcint on row sh of
\* bas, (2l+1)*nctr and (l+1)(l+2)/2*nctr
_nao_at_shell(bas, spherical, sh) ==
    IF spherical
    THEN (2 * bas[sh + 1][2] + 1) * bas[sh + 1][4]
    ELSE (((bas[sh + 1][2] + 1) * (bas[sh + 1][2] + 2)) \div 2) * bas[sh + 1][4]

\* __init__, lines 101-103: the maps before the loop over the shells
EmptyMaps == [shell_to_aoloc |-> <<0>>, ao_to_shell |-> <<>>, ao_to_atom |-> <<>>]

\* __init__, lines 105-109: one pass of the loop over the shells
AddShellMap(maps, i, nao_at_shell_i, atom_of_shell) ==
    [shell_to_aoloc |-> Append(maps.shell_to_aoloc,
                               maps.shell_to_aoloc[Len(maps.shell_to_aoloc)]
                               + nao_at_shell_i),
     ao_to_shell |-> maps.ao_to_shell \o [k \in 1..nao_at_shell_i |-> i],
     ao_to_atom |-> maps.ao_to_atom \o [k \in 1..nao_at_shell_i |-> atom_of_shell]]

\* __init__, lines 104-109: the loop over the shells, from shell i on
RECURSIVE ShellMaps(_, _, _, _, _)
ShellMaps(maps, i, bas, spherical, shell_to_atom) ==
    IF i >= Len(bas) THEN maps
    ELSE ShellMaps(AddShellMap(maps, i, _nao_at_shell(bas, spherical, i),
                               shell_to_atom[i + 1]),
                   i + 1, bas, spherical, shell_to_atom)

\* __init__, lines 90-115: the fields of the object from the lists and maps
WrapperFields(atombases, spherical, basis_normalized, acc, maps) ==
    [_atombases |-> atombases,
     _spherical |-> spherical,
     _basis_normalized |-> basis_normalized,
     _natoms |-> Len(atombases),
     _allpos_params |-> acc.allpos,
     _allalphas_params |-> acc.allalphas,
     _allcoeffs_params |-> acc.allcoeffs,
     _atm |-> acc.atm_list,
     _bas |-> acc.bas_list,
     _env |-> acc.env_list,
     _ngauss_at_shell_list |-> acc.ngauss_at_shell,
     _shell_to_aoloc |-> maps.shell_to_aoloc,
     _shell_idxs |-> <<0, Len(acc.bas_list)>>,
     _ao_to_shell |-> maps.ao_to_shell,
     _ao_to_atom |-> maps.ao_to_atom]

\* __init__ after the loop over the atoms
FinishWrapper(atombases, spherical, basis_normalized, acc) ==
    WrapperFields(atombases, spherical, basis_normalized, acc,
                  ShellMaps(EmptyMaps, 0, acc.bas_list, spherical, acc.shell_to_atom))

\* LibcintWrapper(atombases, spherical, basis_normalized)
LibcintWrapper(atombases, spherical, basis_normalized) ==
    FinishWrapper(atombases, spherical, basis_normalized,
                  AddAtoms(EmptyLists, atombases, 0, basis_normalized))

\* __init__, lines 25-29: the fields set before the tables are made
NewObject(atombases, spherical, basis_normalized) ==
    [_atombases |-> atombases,
     _spherical |-> spherical,
     _basis_normalized |-> basis_normalized,
     _natoms |-> Len(atombases)]

\* __init__ has made the tables of the object
Built(self) == "_env" \in DOMAIN self

\* some shell makes _normalize_basis raise
BuildRaises(atombases, basis_normalized) ==
    \E i \in 1..Len(atombases) : \E k \in 1..Len(atombases[i].bases) :
        NormalizeRaises(basis_normalized, atombases[i].bases[k].angmom)

\* no environment has been built (the shortcut algebra needs none)
NoWrapper == [_natoms |-> 0]

----------------------------------------------------------------------------
(* Inputs of the builder *)

\* CGTOBasis(angmom, alphas, coeffs) with n primitives
CGTOBasis(angmom, n) ==
    [angmom |-> angmom,
     alphas |-> [g \in 1..n |-> g],
     coeffs |-> [g \in 1..n |-> 10 + g]]

\* AtomCGTOBasis(atomz, bases, pos) of the atom at list index iatom
AtomCGTOBasis(iatom, bases) ==
    [atomz |-> iatom + 1,
     bases |-> bases,
     pos |-> <<10 * iatom + 11, 10 * iatom + 12, 10 * iatom + 13>>]

\* the shells an atom may carry
ShellChoices(maxAngmom, maxGauss) ==
    { CGTOBasis(l, n) : l \in 0..maxAngmom, n \in 1..maxGauss }

\* the lists of at most n elements of S
SeqsUpTo(S, n) == UNION { [1..k -> S] : k \in 0..n }

\* the lists of atoms handed to the builder: the first atom has a shell
\* (__init__ reads atombases[0].bases[0])
AtomBasesChoices(maxAtoms, maxShells, maxAngmom, maxGauss) ==
    UNION { { [i \in 1..k |-> AtomCGTOBasis(i - 1, bl[i])] :
                bl \in { b \in [1..k -> SeqsUpTo(ShellChoices(maxAngmom, maxGauss),
                                                 maxShells)] : b[1] # <<>> } } :
            k \in 1..maxAtoms }

\* the lists of at most maxAtoms atoms with at most maxShells shells each,
\* the shells taken from a set
AtomBasesOver(shells, maxAtoms, maxShells) ==
    UNION { { [i \in 1..k |-> AtomCGTOBasis(i - 1, bl[i])] :
                bl \in { b \in [1..k -> SeqsUpTo(shells, maxShells)] : b[1] # <<>> } } :
            k \in 1..maxAtoms }

----------------------------------------------------------------------------
(* Python values and containers *)

\* the outcome of a call: the value returned, or the exception raised
Return(v) == [raised |-> "none", val |-> v]
Raise(exc) == [raised |-> exc, val |-> <<>>]

\* an optional int: <<>> is None, <<n>> is the int n
NoneInt == <<>>
OptInts(lo, hi) == {NoneInt} \cup { <<n>> : n \in lo..hi }

\* a[i] of a numpy array or a list: a negative index counts from the end
NpIndex(a, i) ==
    IF i >= -Len(a) /\ i < Len(a) THEN Return(a[PyIndex(i, Len(a)) + 1])
    ELSE Raise("IndexError")

\* a bound of a Python slice clipped to a sequence of length n
PyBound(k, n) == IF k < 0 THEN Max2(k + n, 0) ELSE Min2(k, n)

\* a[lo:hi] of a list, a numpy array or a torch tensor
PySlice(a, lo, hi) ==
    IF PyBound(hi, Len(a)) <= PyBound(lo, Len(a)) THEN <<>>
    ELSE SubSeq(a, PyBound(lo, Len(a)) + 1, PyBound(hi, Len(a)))

\* sum(l) of a list of ints
RECURSIVE PySum(_)
PySum(l) == IF l = <<>> THEN 0 ELSE Head(l) + PySum(Tail(l))

\* list(range(lo, hi))
PyRange(lo, hi) == IF hi <= lo THEN <<>> ELSE [k \in 1..(hi - lo) |-> lo + k - 1]

\* l * n of a list
RECURSIVE PyRepeat(_, _)
PyRepeat(l, n) == IF n <= 0 THEN <<>> ELSE l \o PyRepeat(l, n - 1)

\* the outcome of LibcintWrapper(atombases, spherical, basis_normalized)
Build(atombases, spherical, basis_normalized) ==
    IF BuildRaises(atombases, basis_normalized) THEN Raise("IndexError")
    ELSE Return(LibcintWrapper(atombases, spherical, basis_normalized))

----------------------------------------------------------------------------
(* Shell-subset views and the accessors of LibcintWrapper *)

\* no view has been made
NoSubset == [cls |-> "NoneType"]

\* SubsetLibcintWrapper.__init__(parent, subset): the view holds a reference
\* to its parent, the object of variable wrapper, and its own shell interval
SubsetLibcintWrapper(parent_ref, subset_slice) ==
    [cls |-> "SubsetLibcintWrapper",
     _parent |-> parent_ref,
     _shell_idxs |-> <<subset_slice.start, subset_slice.stop>>]

\* references to objects: the object of variable wrapper, or an object that
\* lives only in the result of a call
WrapperRef == [heap |-> "wrapper"]
TempRef(obj) == [heap |-> "temp", obj |-> obj]

\* the object a reference points to
Deref(ref) == IF ref.heap = "wrapper" THEN wrapper ELSE ref.obj

\* attribute lookup: the object's own attribute, else
\* SubsetLibcintWrapper.__getattr__, which asks the parent
GetAttr(self, name) ==
    IF name \in DOMAIN self THEN self[name] ELSE Deref(self._parent)[name]

\* the properties of lines 146-187
atm_bas_env(self) == <<GetAttr(self, "_atm"), GetAttr(self, "_bas"), GetAttr(self, "_env")>>
params(self) ==
    <<GetAttr(self, "_allcoeffs_params"), GetAttr(self, "_allalphas_params"),
      GetAttr(self, "_allpos_params")>>
shell_idxs(self) == GetAttr(self, "_shell_idxs")
full_shell_to_aoloc(self) == GetAttr(self, "_shell_to_aoloc")
full_ao_to_atom(self) == GetAttr(self, "_ao_to_atom")
full_ao_to_shell(self) == GetAttr(self, "_ao_to_shell")
ngauss_at_shell(self) == GetAttr(self, "_ngauss_at_shell_list")

__len__(self) == Return(shell_idxs(self)[2] - shell_idxs(self)[1])

\* a - b of two outcomes, the first exception raised wins
OutcomeMinus(a, b) ==
    IF a.raised # "none" THEN a
    ELSE IF b.raised # "none" THEN b
    ELSE Return(a.val - b.val)

\* (a, b) of two outcomes
OutcomePair(a, b) ==
    IF a.raised # "none" THEN a
    ELSE IF b.raised # "none" THEN b
    ELSE Return(<<a.val, b.val>>)

nao(self) ==
    OutcomeMinus(NpIndex(full_shell_to_aoloc(self), shell_idxs(self)[2]),
                 NpIndex(full_shell_to_aoloc(self), shell_idxs(self)[1]))

ao_idxs(self) ==
    OutcomePair(NpIndex(full_shell_to_aoloc(self), shell_idxs(self)[1]),
                NpIndex(full_shell_to_aoloc(self), shell_idxs(self)[2]))

\* full_map[slice(*self.ao_idxs())]
SliceByAoIdxs(full_map, idxs) ==
    IF idxs.raised # "none" THEN idxs
    ELSE Return(PySlice(full_map, idxs.val[1], idxs.val[2]))

ao_to_atom(self) == SliceByAoIdxs(full_ao_to_atom(self), ao_idxs(self))

ao_to_shell(self) == SliceByAoIdxs(full_ao_to_shell(self), ao_idxs(self))

\* a slice object; an int index carries its value in start
Slice(start, stop, step) == [isslice |-> TRUE, start |-> start, stop |-> stop, step |-> step]
IntIndex(i) == [isslice |-> FALSE, start |-> <<i>>, stop |-> NoneInt, step |-> NoneInt]

\* __getitem__, lines 231-235: complete the slice
CompleteSlice(inp, nshells) ==
    IF inp.start = NoneInt /\ inp.stop # NoneInt THEN [start |-> 0, stop |-> inp.stop[1]]
    ELSE IF inp.start # NoneInt /\ inp.stop = NoneInt
    THEN [start |-> inp.start[1], stop |-> nshells]
    ELSE [start |-> inp.start[1], stop |-> inp.stop[1]]

\* make the slice positive, but the stop is left as given
PositiveSlice_startonly(sl, nshells) ==
    [start |-> IF sl.start < 0 THEN sl.start + nshells ELSE sl.start,
     stop |-> sl.stop]

\* __getitem__, lines 238-241: make the slice positive
PositiveSlice(sl, nshells) ==
    [start |-> IF sl.start < 0 THEN sl.start + nshells ELSE sl.start,
     stop |-> IF sl.stop < 0 THEN sl.stop + nshells ELSE sl.stop]

\* LibcintWrapper.__getitem__(self, inp) of the object behind self_ref
__getitem__(self_ref, inp) ==
    IF ~inp.isslice THEN Raise("AssertionError")
    ELSE IF ~(inp.step = NoneInt \/ inp.step = <<1>>) THEN Raise("AssertionError")
    ELSE IF ~(inp.start # NoneInt \/ inp.stop # NoneInt) THEN Raise("AssertionError")
    ELSE Return(SubsetLibcintWrapper(self_ref,
                    PositiveSlice(CompleteSlice(inp, shell_idxs(Deref(self_ref))[2]),
                                  shell_idxs(Deref(self_ref))[2])))

\* indexing of a view as LibcintWrapper.__getitem__ would do it on the parent
Subset__getitem___inherited(self, inp) == __getitem__(self._parent, inp)

\* SubsetLibcintWrapper.__getitem__(self, inp)
Subset__getitem__(self, inp) == Raise("NotImplementedError")

\* get_uncontracted_wrapper, lines 255-261: one shell per primitive
RECURSIVE UncontractedBases(_)
UncontractedBases(bases) ==
    IF bases = <<>> THEN <<>>
    ELSE [k \in 1..Len(Head(bases).alphas) |->
             [angmom |-> Head(bases).angmom,
              alphas |-> <<Head(bases).alphas[k]>>,
              coeffs |-> <<Head(bases).coeffs[k]>>]]
         \o UncontractedBases(Tail(bases))

\* get_uncontracted_wrapper, lines 250-262: new_atombases
UncontractedAtomBases(atombases) ==
    [i \in 1..Len(atombases) |->
        [atomz |-> atombases[i].atomz,
         bases |-> UncontractedBases(atombases[i].bases),
         pos |-> atombases[i].pos]]

\* the loop building uao2ao, each shell's orbital range taken once
RECURSIVE Uao2ao_norepeat(_, _, _, _)
Uao2ao_norepeat(parent, i, stop, idx_ao) ==
    IF i >= stop THEN <<>>
    ELSE PyRange(idx_ao, idx_ao + _nao_at_shell(parent._bas, parent._spherical, i))
         \o Uao2ao_norepeat(parent, i + 1, stop,
                            idx_ao + _nao_at_shell(parent._bas, parent._spherical, i))

\* the loop building uao2ao over the shells i..stop-1 of parent, from idx_ao
RECURSIVE Uao2ao(_, _, _, _)
Uao2ao(parent, i, stop, idx_ao) ==
    IF i >= stop THEN <<>>
    ELSE PyRepeat(PyRange(idx_ao, idx_ao + _nao_at_shell(parent._bas, parent._spherical, i)),
                  parent._ngauss_at_shell_list[i + 1])
         \o Uao2ao(parent, i + 1, stop,
                   idx_ao + _nao_at_shell(parent._bas, parent._spherical, i))

\* LibcintWrapper.get_uncontracted_wrapper(self)
get_uncontracted_wrapper(self) ==
    Return([uncontr_wrapper |-> LibcintWrapper(UncontractedAtomBases(self._atombases),
                                               self._spherical, self._basis_normalized),
            uao2ao |-> Uao2ao(self, 0, __len__(self).val, 0)])

\* SubsetLibcintWrapper.get_uncontracted_wrapper, lines 349-351: the view of
\* the parent's uncontracted wrapper pu_wrapper
UncontractedView(self, pu_wrapper) ==
    __getitem__(TempRef(pu_wrapper),
        Slice(<<PySum(PySlice(ngauss_at_shell(self), 0, shell_idxs(self)[1]))>>,
              <<PySum(PySlice(ngauss_at_shell(self), 0, shell_idxs(self)[2]))>>,
              NoneInt)).val

\* the shells i of range(shell_idxs[0], shell_idxs[1]) are rows of bas
ShellsInBas(self) ==
    \A i \in shell_idxs(self)[1]..(shell_idxs(self)[2] - 1) :
        i >= 0 /\ i < Len(GetAttr(self, "_bas"))

\* SubsetLibcintWrapper.get_uncontracted_wrapper(self) when every shell of
\* the view is a row of bas
Subset_get_uncontracted_wrapper(self) ==
    Return([uncontr_wrapper |->
                UncontractedView(self, get_uncontracted_wrapper(Deref(self._parent))
                                           .val.uncontr_wrapper),
            uao2ao |-> Uao2ao(Deref(self._parent), shell_idxs(self)[1],
                              shell_idxs(self)[2], 0)])

\* the outcomes of SubsetLibcintWrapper.get_uncontracted_wrapper: with a shell
\* index that is no row of bas, the native CINTcgto_* reads outside the table
Subset_get_uncontracted_outcomes(self) ==
    IF ShellsInBas(self) THEN {Subset_get_uncontracted_wrapper(self)}
    ELSE {Raise("SegmentationFault"), Return([uncontr_wrapper |-> NoSubset, uao2ao |-> <<>>])}

----------------------------------------------------------------------------
(* The centring scope: centre_on_r / _centre_on_r *)

\* env[PTR_RINV_ORIG : PTR_RINV_ORIG + NDIM]: basic slicing of a numpy array
\* gives a view of the array, not a copy
CentreView == [start |-> PTR_RINV_ORIG, stop |-> PTR_RINV_ORIG + NDIM]

\* the values a view of env holds now
ViewRead(view, env) == SubSeq(env, view.start + 1, view.stop)

\* env[start:stop] = vals
SetSlice(env, start, stop, vals) ==
    [k \in 1..Len(env) |-> IF k > start /\ k <= stop THEN vals[k - start] ELSE env[k]]

\* the centre r is written at the start of the atom data of env
CentreEnter_atcoord(env, r) == SetSlice(env, PTR_ENV_START, PTR_ENV_START + NDIM, r)

\* centre_on_r up to the yield: env after the centre r is installed
CentreEnter(env, r) == SetSlice(env, PTR_RINV_ORIG, PTR_RINV_ORIG + NDIM, r)

\* centre_on_r, the finally clause: env after prev_centre is assigned back
CentreExit(env, prev_centre) ==
    SetSlice(env, PTR_RINV_ORIG, PTR_RINV_ORIG + NDIM, ViewRead(prev_centre, env))

----------------------------------------------------------------------------
(* _Int2eFunction.backward *)

\* no backward call has been made on the current shortcut
NoBackward ==
    [ran |-> FALSE, requires_grad |-> FALSE, native |-> <<>>,
     a1 |-> "unbound", a2 |-> "unbound", b1 |-> "unbound", b2 |-> "unbound",
     b2_2 |-> "unbound", raised |-> "none", grad_allcoeffs |-> "None",
     grad_allalphas |-> "None", grad_allposs |-> "None"]

\* _Int2eFunction.backward, lines 544-591: the equivalence cascade and the
\* contraction, given the four derived names (names = <<a1, a2, b1, b2>>)
\* and whether each axes relation is not None.  Each local tensor
\* dout_dpos_* is recorded by how it was obtained: "native" (a forward call,
\* i.e. calc_all_int2e_internal), "from_a1", "from_a2", "from_b1" (a
\* transposition of that tensor) or "unbound" (never assigned).  native lists
\* the shortcuts evaluated natively, in call order.  Reading an unbound local
\* in the contraction raises UnboundLocalError.
Int2eCascade(names, a12, a1b1, a2b1, b12, a1b2, a2b2) ==
    LET dout_dpos_a2 == IF a12 THEN "from_a1" ELSE "native"
        dout_dpos_b1 == IF a1b1 THEN "from_a1"
                        ELSE IF a2b1 THEN "from_a2"
                        ELSE "native"
        dout_dpos_b2 == IF b12 THEN "from_b1"
                        ELSE IF a1b2 THEN "unbound"
                        ELSE IF a2b2 THEN "from_a2"
                        ELSE "native"
        dout_dpos_b2_2 == IF ~b12 /\ a1b2 THEN "from_a1" ELSE "unbound"
    IN  [ran |-> TRUE, requires_grad |-> TRUE,
         native |-> <<names[1]>>
                    \o (IF ~a12 THEN <<names[2]>> ELSE <<>>)
                    \o (IF ~a1b1 /\ ~a2b1 THEN <<names[3]>> ELSE <<>>)
                    \o (IF ~b12 /\ ~a1b2 /\ ~a2b2 THEN <<names[4]>> ELSE <<>>),
         a1 |-> "native", a2 |-> dout_dpos_a2, b1 |-> dout_dpos_b1,
         b2 |-> dout_dpos_b2, b2_2 |-> dout_dpos_b2_2,
         raised |-> IF ~b12 /\ a1b2 THEN "UnboundLocalError" ELSE "none",
         grad_allcoeffs |-> "None", grad_allalphas |-> "None",
         grad_allposs |-> IF ~b12 /\ a1b2 THEN "None" ELSE "tensor"]

\* a backward that finds no two derived names related
Int2eRelations_none(a1, a2, b1, b2) ==
    Int2eCascade(<<a1, a2, b1, b2>>, FALSE, FALSE, FALSE, FALSE, FALSE, FALSE)

\* _Int2eFunction.backward, lines 535-565: the axes relations of the four
\* derived names
Int2eRelations(a1, a2, b1, b2) ==
    Int2eCascade(<<a1, a2, b1, b2>>,
                 _int2e_shortname_equiv(a1, a2) # None,
                 _int2e_shortname_equiv(a1, b1) # None,
                 _int2e_shortname_equiv(a2, b1) # None,
                 _int2e_shortname_equiv(b1, b2) # None,
                 _int2e_shortname_equiv(a1, b2) # None,
                 _int2e_shortname_equiv(a2, b2) # None)

\* _Int2eFunction.backward(ctx, grad_out) for ctx.other_info = (wrapper,
\* shortname) and allposs.requires_grad = requires_grad
Int2eBackward(shortname, requires_grad) ==
    IF ~requires_grad
    THEN [NoBackward EXCEPT !.ran = TRUE]
    ELSE Int2eRelations(_get_int2e_deriv_shortname(shortname, "ra1"),
                        _get_int2e_deriv_shortname(shortname, "ra2"),
                        _get_int2e_deriv_shortname(shortname, "rb1"),
                        _get_int2e_deriv_shortname(shortname, "rb2"))

----------------------------------------------------------------------------
(* The state before any call on an environment *)

\* no method has been called yet
NoCall == [op |-> "none", on |-> "none", out |-> Return(<<>>)]

\* no index has been handed to __getitem__ yet
NoIndex == [isslice |-> FALSE, start |-> NoneInt, stop |-> NoneInt, step |-> NoneInt]

\* a tensor: its number of axes and its entries
Tensor(ndim, data) == [ndim |-> ndim, data |-> data]
NoTensor == Tensor(0, <<>>)

\* no forward call is in progress
NoForward == [pc |-> "idle", shortname |-> <<>>, ratoms |-> NoTensor, raised |-> "none"]

\* no centring scope is active: prev_centre is unbound
NoView == [start |-> 0, stop |-> 0]
NoScope == [active |-> 0, prev_centre |-> NoView, entry_centre |-> <<>>, evals |-> 0]

\* no forward call has completed yet
NoCtx == [saved |-> FALSE, shortname |-> <<>>, ratoms |-> NoTensor]

\* the environment part of the state when no environment is in use
EnvUnused ==
    /\ wrapper = NoWrapper
    /\ subset = NoSubset
    /\ index = NoIndex
    /\ last = NoCall

\* the one-electron operator part of the state when no call has been made
ProcIdle ==
    /\ fw = NoForward
    /\ pending = <<>>
    /\ scope = NoScope
    /\ ctx = NoCtx

----------------------------------------------------------------------------
(* Specification of the two-electron shortcut algebra: s1 and s2 are derived *)
(* from "ar12b" by the derivative-name rules, and backward runs on s1.       *)

Int2eModes == {"ra1", "ra2", "rb1", "rb2"}
Int1eModes == {"r1", "r2"}

\* operand position (entry of d1, d2) differentiated by a derivmode
ModePos(m) ==
    IF m \in {"ra1", "r1"} THEN 1
    ELSE IF m \in {"ra2", "r2"} THEN 2
    ELSE IF m = "rb1" THEN 3 ELSE 4

Total(d) == d[1] + d[2] + d[3] + d[4]
Bump(d, k) == [d EXCEPT ![k] = @ + 1]

Init2e ==
    /\ s1 = Int2eBaseName
    /\ s2 = Int2eBaseName
    /\ d1 = <<0, 0, 0, 0>>
    /\ d2 = <<0, 0, 0, 0>>
    /\ nerr = "none"
    /\ bw = NoBackward
    /\ EnvUnused
    /\ ProcIdle

\* s1 := _get_int2e_deriv_shortname(s1, m)
Derive2eS1(m) ==
    /\ Total(d1) < MaxDeriv
    /\ s1' = _get_int2e_deriv_shortname(s1, m)
    /\ d1' = Bump(d1, ModePos(m))
    /\ nerr' = "none"
    /\ bw' = NoBackward
    /\ UNCHANGED <<s2, d2>>
    /\ UNCHANGED <<envvars, procvars>>

\* s2 := _get_int2e_deriv_shortname(s2, m)
Derive2eS2(m) ==
    /\ Total(d2) < MaxDeriv
    /\ s2' = _get_int2e_deriv_shortname(s2, m)
    /\ d2' = Bump(d2, ModePos(m))
    /\ nerr' = "none"
    /\ UNCHANGED <<s1, d1, bw>>
    /\ UNCHANGED <<envvars, procvars>>

\* _get_int2e_deriv_shortname(s1, m) with a derivmode of another family:
\* the call raises and no name is produced
Derive2eUnknown(m) ==
    /\ _get_int2e_deriv_shortname(s1, m) = RuntimeError
    /\ nerr' = "RuntimeError"
    /\ UNCHANGED <<s1, s2, d1, d2, bw>>
    /\ UNCHANGED <<envvars, procvars>>

\* _Int2eFunction.backward on the forward result of shortcut s1
Backward2e(requires_grad) ==
    /\ bw' = Int2eBackward(s1, requires_grad)
    /\ nerr' = "none"
    /\ UNCHANGED <<s1, s2, d1, d2>>
    /\ UNCHANGED <<envvars, procvars>>

Next2e ==
    \/ \E m \in Int2eModes : Derive2eS1(m)
    \/ \E m \in Int2eModes : Derive2eS2(m)
    \/ \E m \in Int1eModes \cup {"r"} : Derive2eUnknown(m)
    \/ \E g \in BOOLEAN : Backward2e(g)

SpecInt2e == Init2e /\ [][Next2e]_vars

----------------------------------------------------------------------------
(* Specification of the one-electron shortcut algebra: s1 and s2 are derived *)
(* from the one-electron base names by the derivative-name rules.            *)

Init1e ==
    /\ s1 \in Int1eBaseNames
    /\ s2 \in Int1eBaseNames
    /\ d1 = <<0, 0, 0, 0>>
    /\ d2 = <<0, 0, 0, 0>>
    /\ nerr = "none"
    /\ bw = NoBackward
    /\ EnvUnused
    /\ ProcIdle

\* s1 := _get_int1e_deriv_shortname(s1, m)
Derive1eS1(m) ==
    /\ Total(d1) < MaxDeriv
    /\ s1' = _get_int1e_deriv_shortname(s1, m)
    /\ d1' = Bump(d1, ModePos(m))
    /\ nerr' = "none"
    /\ UNCHANGED <<s2, d2, bw>>
    /\ UNCHANGED <<envvars, procvars>>

\* s2 := _get_int1e_deriv_shortname(s2, m)
Derive1eS2(m) ==
    /\ Total(d2) < MaxDeriv
    /\ s2' = _get_int1e_deriv_shortname(s2, m)
    /\ d2' = Bump(d2, ModePos(m))
    /\ nerr' = "none"
    /\ UNCHANGED <<s1, d1, bw>>
    /\ UNCHANGED <<envvars, procvars>>

\* _get_int1e_deriv_shortname(s1, m) with a derivmode of another family:
\* the call raises and no name is produced
Derive1eUnknown(m) ==
    /\ _get_int1e_deriv_shortname(s1, m) = RuntimeError
    /\ nerr' = "RuntimeError"
    /\ UNCHANGED <<s1, s2, d1, d2, bw>>
    /\ UNCHANGED <<envvars, procvars>>

Next1e ==
    \/ \E m \in Int1eModes : Derive1eS1(m)
    \/ \E m \in Int1eModes : Derive1eS2(m)
    \/ \E m \in Int2eModes \cup {"r"} : Derive1eUnknown(m)

SpecInt1eName == Init1e /\ [][Next1e]_vars

----------------------------------------------------------------------------
(* Claims on the shortcut algebra *)

\* (a, b) and (c, d) are equal as unordered pairs
UPairEq(a, b, c, d) == (a = c /\ b = d) \/ (a = d /\ b = c)

\* n copies of pat
RECURSIVE Rep(_, _)
Rep(pat, n) == IF n = 0 THEN <<>> ELSE pat \o Rep(pat, n - 1)

\* the two-electron shortcut with d[k] markers at operand position k:
\* before 'a', after 'a', before 'b', after 'b'
Canon2e(d) ==
    Rep(IP, d[1]) \o <<"a">> \o Rep(IP, d[2]) \o <<"r","1","2">>
    \o Rep(IP, d[3]) \o <<"b">> \o Rep(IP, d[4])

\* C2: in _Int2eFunction.backward with positions requiring gradient, each
\* of the four first-derivative tensors a1, a2, b1, b2 has been obtained
\* (natively or by transposition) when the contraction uses it, so the
\* call does not fail on an unassigned tensor.
C2_AllFourTensorsObtained ==
    (bw.ran /\ bw.requires_grad) =>
        /\ bw.a1 # "unbound" /\ bw.a2 # "unbound"
        /\ bw.b1 # "unbound" /\ bw.b2 # "unbound"
        /\ bw.raised = "none"

\* C3: _int2e_shortname_equiv(s1, s2) is None exactly when the marker
\* counts of s1 and s2 agree neither left-with-left and right-with-right
\* nor left-with-right and right-with-left (as unordered pairs); otherwise
\* the returned swaps, applied in order to the counts of s1, give exactly
\* the counts of s2, and the list is empty when the counts are equal.
C3_EquivSwapsReproduceTarget ==
    LET res   == _int2e_shortname_equiv(s1, s2)
        same  == /\ UPairEq(d1[1], d1[2], d2[1], d2[2])
                 /\ UPairEq(d1[3], d1[4], d2[3], d2[4])
        cross == /\ UPairEq(d1[1], d1[2], d2[3], d2[4])
                 /\ UPairEq(d1[3], d1[4], d2[1], d2[2])
    IN  /\ (res = None) <=> ~(same \/ cross)
        /\ res # None => _transpose(d1, res.axes) = d2
        /\ d1 = d2 => res = AxesList(<<>>)

\* C3 witness: a pair related by the full swap of operand pairs followed by
\* a swap inside both pairs, and a pair that is not related
C3_Witness ==
    /\ _int2e_shortname_equiv(s1, s2) # None
    /\ Len(_int2e_shortname_equiv(s1, s2).axes) = 4
    /\ d1 # d2

\* C4: _int1e_shortname_equiv(s1, s2) holds exactly when the (leading,
\* trailing) marker run-lengths of s1 and s2 have the same minimum and
\* maximum; the run-lengths are the numbers of left and right derivations;
\* "ip"+X and X+"ip" are equivalent, "ipip"+X and "ip"+X+"ip" are not.
C4_Int1eEquivIffMinMax ==
    /\ _calc_pattern_occurence(s1, IP, TRUE, FALSE) = d1[1]
    /\ _calc_pattern_occurence(s1, IP, FALSE, TRUE) = d1[2]
    /\ _int1e_shortname_equiv(s1, s2) <=> UPairEq(d1[1], d1[2], d2[1], d2[2])
    /\ \A X \in Int1eBaseNames :
          /\ _int1e_shortname_equiv(IP \o X, X \o IP)
          /\ ~_int1e_shortname_equiv(IP \o IP \o X, IP \o X \o IP)

\* C4 witness: two different shortcuts that are transposes of each other
\* with unequal run-lengths on the two sides
C4_Witness ==
    /\ d1 = <<2, 1, 0, 0>>
    /\ d2 = <<1, 2, 0, 0>>
    /\ _int1e_shortname_equiv(s1, s2)

\* C5: _get_int2e_deriv_shortname puts the marker at the start ("ra1"),
\* immediately after the first 'a' ("ra2"), immediately before the last
\* 'b' ("rb1") or at the end ("rb2"); for "ar12b" the four results are
\* "ipar12b", "aipr12b", "ar12ipb", "ar12bip"; any other target raises.
C5_DerivNameSurgery ==
    /\ s1 = Canon2e(d1)
    /\ \A m \in Int2eModes :
          _get_int2e_deriv_shortname(s1, m) = Canon2e(Bump(d1, ModePos(m)))
    /\ _get_int2e_deriv_shortname(s1, "ra1") = IP \o s1
    /\ _get_int2e_deriv_shortname(s1, "rb2") = s1 \o IP
    /\ _get_int2e_deriv_shortname(Int2eBaseName, "ra1") = <<"i","p","a","r","1","2","b">>
    /\ _get_int2e_deriv_shortname(Int2eBaseName, "ra2") = <<"a","i","p","r","1","2","b">>
    /\ _get_int2e_deriv_shortname(Int2eBaseName, "rb1") = <<"a","r","1","2","i","p","b">>
    /\ _get_int2e_deriv_shortname(Int2eBaseName, "rb2") = <<"a","r","1","2","b","i","p">>
    /\ \A m \in Int1eModes \cup {"r"} :
          _get_int2e_deriv_shortname(s1, m) = RuntimeError
    /\ nerr = "RuntimeError" => s1 = Canon2e(d1)

\* C5 witness: a shortcut obtained by inserting after 'a' and before 'b' in
\* a name that already starts with a marker
C5_Witness ==
    /\ d1 = <<1, 1, 1, 0>>
    /\ s1 = <<"i","p","a","i","p","r","1","2","i","p","b">>

----------------------------------------------------------------------------
(* Specification of slicing: an environment is built, one index is handed   *)
(* to its __getitem__, and the accessors are called on the environment and  *)
(* on the view made.                                                        *)

\* the environments that are sliced
SliceEnvs ==
    { LibcintWrapper(atombases, spherical, FALSE) :
        atombases \in AtomBasesChoices(MaxAtoms, MaxShells, MaxSliceAngmom, 1),
        spherical \in BOOLEAN }

\* the indices handed to __getitem__
IndexInputs ==
    { Slice(start, stop, step) :
        start \in OptInts(-MaxIdx, MaxIdx), stop \in OptInts(-MaxIdx, MaxIdx),
        step \in OptInts(1, 2) }
    \cup { IntIndex(0) }

InitSlice ==
    /\ s1 = <<>>
    /\ s2 = <<>>
    /\ d1 = <<0, 0, 0, 0>>
    /\ d2 = <<0, 0, 0, 0>>
    /\ nerr = "none"
    /\ bw = NoBackward
    /\ wrapper \in SliceEnvs
    /\ subset = NoSubset
    /\ index \in IndexInputs
    /\ last = NoCall
    /\ ProcIdle

\* the objects a method can be called on
Targets == {"wrapper"} \cup (IF subset.cls = "SubsetLibcintWrapper" THEN {"subset"} ELSE {})
Target(on) == IF on = "wrapper" THEN wrapper ELSE subset

\* a call that only returns a value
Called(op, on, out) ==
    /\ last' = [op |-> op, on |-> on, out |-> out]
    /\ UNCHANGED <<namevars, wrapper, subset, index, procvars>>

\* subset = wrapper[index]
GetItem ==
    /\ last' = [op |-> "__getitem__", on |-> "wrapper", out |-> __getitem__(WrapperRef, index)]
    /\ subset' = IF __getitem__(WrapperRef, index).raised = "none"
                 THEN __getitem__(WrapperRef, index).val ELSE subset
    /\ UNCHANGED <<namevars, wrapper, index, procvars>>

\* subset[index]
SubsetGetItem ==
    /\ subset.cls = "SubsetLibcintWrapper"
    /\ Called("__getitem__", "subset", Subset__getitem__(subset, index))

CallLen(on) == Called("__len__", on, __len__(Target(on)))
CallNao(on) == Called("nao", on, nao(Target(on)))
CallAoIdxs(on) == Called("ao_idxs", on, ao_idxs(Target(on)))
CallAoToAtom(on) == Called("ao_to_atom", on, ao_to_atom(Target(on)))
CallAoToShell(on) == Called("ao_to_shell", on, ao_to_shell(Target(on)))

Uncontracted ==
    Called("get_uncontracted_wrapper", "wrapper", get_uncontracted_wrapper(wrapper))

SubsetUncontracted ==
    /\ subset.cls = "SubsetLibcintWrapper"
    /\ \E out \in Subset_get_uncontracted_outcomes(subset) :
          Called("get_uncontracted_wrapper", "subset", out)

NextSlice ==
    \/ GetItem
    \/ SubsetGetItem
    \/ \E on \in Targets : CallLen(on)
    \/ \E on \in Targets : CallNao(on)
    \/ \E on \in Targets : CallAoIdxs(on)
    \/ \E on \in Targets : CallAoToAtom(on)
    \/ \E on \in Targets : CallAoToShell(on)
    \/ Uncontracted
    \/ SubsetUncontracted

SpecSlice == InitSlice /\ [][NextSlice]_vars

----------------------------------------------------------------------------
(* _Int1eFunction: forward with its centring scope, and backward with the   *)
(* forward calls it makes.  Calls run one after the other in the calling    *)
(* thread; fw.pc is where the forward call in progress stands:              *)
(*   "ready"    about to call wrapper.calc_all_int1e_internal               *)
(*   "native"   the native evaluation is running                            *)
(*   "finally"  the native evaluation is over, the scope is still active    *)

RINV == <<"r", "i", "n", "v">>
NUC == <<"n", "u", "c">>

\* the arguments of _Int1eFunction.apply that decide what a call does
ForwardCall(shortname, ratoms) == [shortname |-> shortname, ratoms |-> ratoms]

\* ratoms[i]
Row(ratoms, i) == Tensor(ratoms.ndim - 1, ratoms.data[i + 1])

\* a backward that makes both forward calls whatever the names
PairCalls_both(shortname, ratoms) ==
    <<ForwardCall(_get_int1e_deriv_shortname(shortname, "r1"), ratoms),
      ForwardCall(_get_int1e_deriv_shortname(shortname, "r2"), ratoms)>>

\* backward: the forward call for the left derivative and, unless the two
\* derivative names are equivalent, the one for the right derivative
PairCalls(shortname, ratoms) ==
    <<ForwardCall(_get_int1e_deriv_shortname(shortname, "r1"), ratoms)>>
    \o (IF _int1e_shortname_equiv(_get_int1e_deriv_shortname(shortname, "r1"),
                                  _get_int1e_deriv_shortname(shortname, "r2"))
        THEN <<>>
        ELSE <<ForwardCall(_get_int1e_deriv_shortname(shortname, "r2"), ratoms)>>)

\* backward, lines 465-482: the loop over the atoms i..natoms-1
RECURSIVE NucCalls(_, _, _, _)
NucCalls(sname_rinv, ratoms, i, natoms) ==
    IF i >= natoms THEN <<>>
    ELSE PairCalls(sname_rinv, Row(ratoms, i)) \o NucCalls(sname_rinv, ratoms, i + 1, natoms)

\* backward: the forward calls it makes, in order, for the saved shortname
\* and ratoms and for the inputs that require gradient
Int1eBackwardCalls(saved, allposs_requires_grad, ratoms_requires_grad) ==
    (IF allposs_requires_grad THEN PairCalls(saved.shortname, saved.ratoms) ELSE <<>>)
    \o (IF ratoms_requires_grad /\ StrContains(saved.shortname, NUC)
        THEN NucCalls(StrReplace(saved.shortname, NUC, RINV), saved.ratoms, 0,
                      Len(saved.ratoms.data))
        ELSE IF ratoms_requires_grad /\ StrContains(saved.shortname, RINV)
        THEN PairCalls(saved.shortname, saved.ratoms)
        ELSE <<>>)

\* the forward call returns or raises: ctx is saved on return, an exception
\* leaves the backward that made the call
ForwardEnd(raised) ==
    /\ fw' = NoForward
    /\ ctx' = IF raised = "none"
              THEN [saved |-> TRUE, shortname |-> fw.shortname, ratoms |-> fw.ratoms]
              ELSE ctx
    /\ pending' = IF raised = "none" THEN pending ELSE <<>>
    /\ last' = [op |-> "forward", on |-> "wrapper",
                out |-> IF raised = "none" THEN Return(fw.shortname) ELSE Raise(raised)]

\* a forward that centres no call
NeedsCentre_never(shortname) == FALSE

\* forward, line 399: "rinv" in shortname
NeedsCentre(shortname) == StrContains(shortname, RINV)

\* forward, lines 399-404, up to the native call; rest is what the caller
\* has still to do after this call
ForwardBegin(call, rest) ==
    IF NeedsCentre(call.shortname)
    THEN IF ~(call.ratoms.ndim = 1 /\ Len(call.ratoms.data) = NDIM)
         THEN /\ fw' = NoForward
              /\ pending' = <<>>
              /\ last' = [op |-> "forward", on |-> "wrapper", out |-> Raise("AssertionError")]
              /\ UNCHANGED <<wrapper, scope, ctx>>
         ELSE /\ scope' = [active |-> scope.active + 1,
                           prev_centre |-> CentreView,
                           entry_centre |-> ViewRead(CentreView, wrapper._env),
                           evals |-> 0]
              /\ wrapper' = [wrapper EXCEPT !._env = CentreEnter(@, call.ratoms.data)]
              /\ fw' = [pc |-> "ready", shortname |-> call.shortname,
                        ratoms |-> call.ratoms, raised |-> "none"]
              /\ pending' = rest
              /\ last' = [op |-> "forward", on |-> "wrapper", out |-> Return(<<>>)]
              /\ UNCHANGED ctx
    ELSE /\ fw' = [pc |-> "ready", shortname |-> call.shortname,
                   ratoms |-> call.ratoms, raised |-> "none"]
         /\ pending' = rest
         /\ last' = [op |-> "forward", on |-> "wrapper", out |-> Return(<<>>)]
         /\ UNCHANGED <<wrapper, scope, ctx>>

\* the centres handed to a "rinv" call, and ratoms of the other calls
CentreInputs == { Tensor(1, NumSeq(<<1, 2, 3>>)) }
AllPos == Tensor(2, wrapper._allpos_params)

\* the caller runs _Int1eFunction.apply on a base name
UserForward(shortname, ratoms) ==
    /\ fw.pc = "idle"
    /\ pending = <<>>
    /\ ForwardBegin(ForwardCall(shortname, ratoms), <<>>)
    /\ UNCHANGED <<namevars, subset, index>>

\* backward makes its next forward call
BackwardForward ==
    /\ fw.pc = "idle"
    /\ pending # <<>>
    /\ ForwardBegin(Head(pending), Tail(pending))
    /\ UNCHANGED <<namevars, subset, index>>

\* wrapper.calc_all_int1e_internal(shortname) is called
NativeBegin ==
    /\ fw.pc = "ready"
    /\ fw' = [fw EXCEPT !.pc = "native"]
    /\ scope' = IF scope.active > 0 THEN [scope EXCEPT !.evals = @ + 1] ELSE scope
    /\ UNCHANGED <<namevars, wrapper, subset, index, last, pending, ctx>>

\* where forward stands after the native evaluation, when the scope is left
\* only if the evaluation returned
AfterNative_nofinally(shortname, ok) ==
    IF StrContains(shortname, RINV) /\ ok THEN "finally" ELSE "end"

\* where forward stands after the native evaluation: the with statement
\* leaves the scope on return and on raise
AfterNative(shortname, ok) ==
    IF StrContains(shortname, RINV) THEN "finally" ELSE "end"

\* the native evaluation returns (ok) or raises
NativeEnd(ok) ==
    /\ fw.pc = "native"
    /\ IF AfterNative(fw.shortname, ok) = "finally"
       THEN /\ fw' = [fw EXCEPT !.pc = "finally",
                                !.raised = IF ok THEN "none" ELSE "NativeCallFailure"]
            /\ UNCHANGED <<pending, ctx, last>>
       ELSE ForwardEnd(IF ok THEN "none" ELSE "NativeCallFailure")
    /\ UNCHANGED <<namevars, wrapper, subset, index, scope>>

\* the finally clause of the scope, then forward returns or raises
ScopeExit ==
    /\ fw.pc = "finally"
    /\ wrapper' = [wrapper EXCEPT !._env = CentreExit(@, scope.prev_centre)]
    /\ scope' = [scope EXCEPT !.active = @ - 1]
    /\ ForwardEnd(fw.raised)
    /\ UNCHANGED <<namevars, subset, index>>

\* _Int1eFunction.backward of the last completed forward
Int1eBackward(allposs_requires_grad, ratoms_requires_grad) ==
    /\ fw.pc = "idle"
    /\ pending = <<>>
    /\ ctx.saved
    /\ _calc_pattern_occurence(ctx.shortname, IP, FALSE, FALSE) < MaxOrder
    /\ pending' = Int1eBackwardCalls(ctx, allposs_requires_grad, ratoms_requires_grad)
    /\ last' = [op |-> "backward", on |-> "wrapper", out |-> Return(<<>>)]
    /\ UNCHANGED <<namevars, wrapper, subset, index, fw, scope, ctx>>

\* the environments the operators run on
OperatorEnvs ==
    { LibcintWrapper(atombases, TRUE, FALSE) :
        atombases \in AtomBasesChoices(MaxAtoms, 1, 0, 1) }

\* the indices handed to __getitem__ between operator calls
OperatorIndexInputs == { Slice(<<0>>, <<1>>, NoneInt), Slice(NoneInt, NoneInt, NoneInt) }

Init ==
    /\ s1 = <<>>
    /\ s2 = <<>>
    /\ d1 = <<0, 0, 0, 0>>
    /\ d2 = <<0, 0, 0, 0>>
    /\ nerr = "none"
    /\ bw = NoBackward
    /\ wrapper \in OperatorEnvs
    /\ subset = NoSubset
    /\ index \in OperatorIndexInputs
    /\ last = NoCall
    /\ ProcIdle

\* the methods of the environment and of its view are called between the
\* operator calls, in the same thread
Next ==
    \/ \E shortname \in Int1eBaseNames \ {RINV} : UserForward(shortname, AllPos)
    \/ \E ratoms \in CentreInputs \cup {AllPos} : UserForward(RINV, ratoms)
    \/ BackwardForward
    \/ NativeBegin
    \/ \E ok \in BOOLEAN : NativeEnd(ok)
    \/ ScopeExit
    \/ \E allposs_requires_grad, ratoms_requires_grad \in BOOLEAN :
          Int1eBackward(allposs_requires_grad, ratoms_requires_grad)
    \/ (fw.pc = "idle" /\ pending = <<>> /\ NextSlice)

Spec == Init /\ [][Next]_vars

----------------------------------------------------------------------------
(* Claims on the offset table and on slicing *)

\* the shells handed to the builder, in the order of the atoms
RECURSIVE InputShells(_)
InputShells(atombases) ==
    IF atombases = <<>> THEN <<>>
    ELSE Head(atombases).bases \o InputShells(Tail(atombases))

\* the number of orbitals of a shell of angular momentum l
OrbitalCount(l, spherical) ==
    IF spherical THEN 2 * l + 1 ELSE ((l + 1) * (l + 2)) \div 2

\* the orbital counts of the shells handed to the builder
ShellCounts ==
    [k \in 1..Len(InputShells(wrapper._atombases)) |->
        OrbitalCount(InputShells(wrapper._atombases)[k].angmom, wrapper._spherical)]

\* the sum of the orbital counts of the shells lo..hi-1
RECURSIVE CountSum(_, _)
CountSum(lo, hi) ==
    IF hi <= lo THEN 0
    ELSE (IF lo >= 0 /\ lo < Len(ShellCounts) THEN ShellCounts[lo + 1] ELSE 0)
         + CountSum(lo + 1, hi)

\* the number of shells of the environment
NShells == Len(InputShells(wrapper._atombases))

\* the offset table holds N + 1 entries, starts at 0, increases strictly,
\* ends at the number of orbitals, and its differences are the orbital counts
OffsetTableWellFormed ==
    /\ Len(wrapper._shell_to_aoloc) = NShells + 1
    /\ wrapper._shell_to_aoloc[1] = 0
    /\ \A k \in 1..NShells :
          /\ wrapper._shell_to_aoloc[k] < wrapper._shell_to_aoloc[k + 1]
          /\ wrapper._shell_to_aoloc[k + 1] - wrapper._shell_to_aoloc[k] = ShellCounts[k]
    /\ wrapper._shell_to_aoloc[NShells + 1] = CountSum(0, NShells)
    /\ wrapper._shell_to_aoloc[NShells + 1] = Len(wrapper._ao_to_shell)

\* C6: the offset table of every environment has one entry more than there
\* are shells, starts at 0, is strictly increasing, ends at the total number
\* of orbitals and has the per-shell orbital counts as its differences; and
\* nao() of every view [s0, s1) is the sum of the orbital counts of the
\* shells s0..s1-1.
C6_OffsetTableAndSubsetNao ==
    /\ OffsetTableWellFormed
    /\ (last.op = "nao" /\ last.on = "subset") =>
          /\ last.out.raised = "none"
          /\ last.out.val = CountSum(subset._shell_idxs[1], subset._shell_idxs[2])

\* a bound of the slice as the claims resolve it: a missing bound is the
\* default, a negative bound counts from the number of shells
ResolvedBound(b, default) ==
    IF b = NoneInt THEN default ELSE IF b[1] < 0 THEN b[1] + NShells ELSE b[1]
ResolvedStart == ResolvedBound(index.start, 0)
ResolvedStop == ResolvedBound(index.stop, NShells)

\* the slice has a step the wrapper takes: none, or 1
UnitStep == index.step = NoneInt \/ index.step = <<1>>

\* wrapper[index] has just been evaluated
Sliced == last.op = "__getitem__" /\ last.on = "wrapper"

\* C7: slicing an environment of N shells fails, and makes no view, whenever
\* the step is not 1 or the resolved range violates 0 <= start < stop <= N.
C7_InvalidRangeRejected ==
    (/\ Sliced
     /\ index.isslice
     /\ \/ ~UnitStep
        \/ ~(0 <= ResolvedStart /\ ResolvedStart < ResolvedStop /\ ResolvedStop <= NShells))
    => (last.out.raised # "none" /\ subset = NoSubset)

\* entry i of the offset table, for an index that names an entry
OffsetAt(i) == wrapper._shell_to_aoloc[i + 1]

FullyOpen == index.start = NoneInt /\ index.stop = NoneInt

\* numpy's reading of offset[i]: an entry counted from the end for a
\* negative i, no entry outside -(N + 1)..N
NumpyOffsetAt(i) ==
    IF i \in (-(NShells + 1))..NShells THEN Return(OffsetAt(i % (NShells + 1)))
    ELSE Raise("IndexError")

----------------------------------------------------------------------------
(* Claims on the centring scope and on the immutability of the tables *)

\* the three entries of env at PTR_RINV_ORIG
CentreRegion(env) == SubSeq(env, PTR_RINV_ORIG + 1, PTR_RINV_ORIG + NDIM)

\* the centre region of an environment as built
BuiltCentre == [k \in 1..NDIM |-> Num(0)]

\* C1: once a centring scope has ended, by return or by raise, the centre
\* region of env holds the values it held when the scope was entered, and
\* after any sequence of scopes the values it held before the first one.
C1_CentreRestoredAfterScope ==
    (scope.active = 0 /\ scope.entry_centre # <<>>) =>
        /\ CentreRegion(wrapper._env) = scope.entry_centre
        /\ CentreRegion(wrapper._env) = BuiltCentre

\* the tables and parameters of an environment
Tables(w) ==
    <<w._atm, w._bas, w._shell_to_aoloc, w._ao_to_shell, w._ao_to_atom,
      w._allpos_params, w._allalphas_params, w._allcoeffs_params,
      w._ngauss_at_shell_list, w._shell_idxs>>

\* env with its centre region blanked
OutsideCentre(env) ==
    [k \in 1..Len(env) |->
        IF k > PTR_RINV_ORIG /\ k <= PTR_RINV_ORIG + NDIM THEN Num(0) ELSE env[k]]

\* C9: no step of any operation changes the atom table, the shell table, the
\* index maps, the parameters or an entry of env outside the centre region,
\* and a view hands out the tables and parameters of its parent.
C9_OnlyCentreRegionChanges ==
    [][/\ Tables(wrapper') = Tables(wrapper)
       /\ OutsideCentre(wrapper'._env) = OutsideCentre(wrapper._env)
       /\ subset'.cls = "SubsetLibcintWrapper" =>
             /\ atm_bas_env(subset)' = <<wrapper'._atm, wrapper'._bas, wrapper'._env>>
             /\ params(subset)' = <<wrapper'._allcoeffs_params, wrapper'._allalphas_params,
                                    wrapper'._allpos_params>>
             /\ full_shell_to_aoloc(subset)' = wrapper'._shell_to_aoloc]_vars

\* a view exists and a native evaluation runs inside a scope that has
\* changed the centre region
C9_Witness ==
    /\ subset.cls = "SubsetLibcintWrapper"
    /\ fw.pc = "native"
    /\ scope.active = 1
    /\ CentreRegion(wrapper._env) # BuiltCentre
    /\ atm_bas_env(subset)[3] = wrapper._env

\* C10: at most one centring scope is active; a scope is active only while
\* the forward call of a "rinv" shortcut stands around its one native
\* evaluation, and none is active when another forward call or a native
\* evaluation of another call begins.
C10_AtMostOneScope ==
    /\ scope.active \in {0, 1}
    /\ scope.active = 1 =>
          /\ fw.pc \in {"ready", "native", "finally"}
          /\ StrContains(fw.shortname, RINV)
          /\ scope.evals = (IF fw.pc = "ready" THEN 0 ELSE 1)
    /\ fw.pc = "idle" => scope.active = 0
    /\ (fw.pc # "idle" /\ ~StrContains(fw.shortname, RINV)) => scope.active = 0

\* inside the loop over the atoms of a backward, a native evaluation runs in
\* a scope while further forward calls are still to be made
C10_Witness ==
    /\ scope.active = 1
    /\ fw.pc = "native"
    /\ scope.evals = 1
    /\ Len(pending) >= 2
    /\ ctx.saved

----------------------------------------------------------------------------
(* Specification of the builder: an object is allocated for a list of atoms, *)
(* __init__ runs on it, and the accessors are called on the environment.    *)

\* the shells whose angular momentum is at the end of, and beyond, the
\* factor table
EdgeShells == { CGTOBasis(l, 1) : l \in {0, NFACTOR - 1, NFACTOR} }

\* the objects that __init__ is run on
BuildObjects ==
    { NewObject(atombases, spherical, basis_normalized) :
        atombases \in AtomBasesChoices(MaxAtoms, MaxShells, MaxAngmom, MaxGauss)
                      \cup AtomBasesOver(EdgeShells, 1, MaxShells),
        spherical \in BOOLEAN, basis_normalized \in BOOLEAN }

InitBuild ==
    /\ s1 = <<>>
    /\ s2 = <<>>
    /\ d1 = <<0, 0, 0, 0>>
    /\ d2 = <<0, 0, 0, 0>>
    /\ nerr = "none"
    /\ bw = NoBackward
    /\ wrapper \in BuildObjects
    /\ subset = NoSubset
    /\ index = NoIndex
    /\ last = NoCall
    /\ ProcIdle

\* LibcintWrapper.__init__ runs on the object
Construct ==
    /\ ~Built(wrapper)
    /\ last = NoCall
    /\ wrapper' = IF Build(wrapper._atombases, wrapper._spherical,
                           wrapper._basis_normalized).raised = "none"
                  THEN Build(wrapper._atombases, wrapper._spherical,
                             wrapper._basis_normalized).val
                  ELSE wrapper
    /\ last' = [op |-> "__init__", on |-> "wrapper",
                out |-> IF BuildRaises(wrapper._atombases, wrapper._basis_normalized)
                        THEN Raise("IndexError") ELSE Return(<<>>)]
    /\ UNCHANGED <<namevars, subset, index, procvars>>

NextBuild ==
    \/ Construct
    \/ (Built(wrapper) /\ Uncontracted)
    \/ (Built(wrapper) /\ CallLen("wrapper"))
    \/ (Built(wrapper) /\ CallNao("wrapper"))
    \/ (Built(wrapper) /\ CallAoIdxs("wrapper"))
    \/ (Built(wrapper) /\ CallAoToAtom("wrapper"))
    \/ (Built(wrapper) /\ CallAoToShell("wrapper"))

SpecBuild == InitBuild /\ [][NextBuild]_vars

----------------------------------------------------------------------------
(* Claims on the builder and on the uncontracted expansion *)

\* the primitives handed to the builder, in the order of the atoms, of the
\* shells and of the primitives: the atom, the shell, and the numbers given
RECURSIVE ShellPrimitives(_, _, _, _)
ShellPrimitives(shell, iatom, ishell, g) ==
    IF g > Len(shell.alphas) THEN <<>>
    ELSE <<[atom |-> iatom, shell |-> ishell, angmom |-> shell.angmom,
            alpha |-> shell.alphas[g], coeff |-> shell.coeffs[g]]>>
         \o ShellPrimitives(shell, iatom, ishell, g + 1)

RECURSIVE InputPrimitives(_, _, _, _)
InputPrimitives(atombases, i, k, ishell) ==
    IF i > Len(atombases) THEN <<>>
    ELSE IF k > Len(atombases[i].bases) THEN InputPrimitives(atombases, i + 1, 1, ishell)
    ELSE ShellPrimitives(atombases[i].bases[k], i - 1, ishell, 1)
         \o InputPrimitives(atombases, i, k + 1, ishell + 1)

Primitives == InputPrimitives(wrapper._atombases, 1, 1, 0)

\* the number of times a occurs in the list l
Occurrences(l, a) == Cardinality({ k \in 1..Len(l) : l[k] = a })

\* get_uncontracted_wrapper has just returned on the environment
Expanded == last.op = "get_uncontracted_wrapper" /\ last.on = "wrapper"

\* C11: get_uncontracted_wrapper returns an environment with one shell per
\* primitive, in the order of the shells and of their primitives, each of one
\* primitive and of the angular momentum and atom of its shell, and a map of
\* as many entries as the expansion has orbitals, each a contracted orbital
\* index, in which every orbital of shell i occurs ngauss_at_shell[i] times.
C11_UncontractedExpansion ==
    Expanded =>
        /\ Len(last.out.val.uncontr_wrapper._bas) = PySum(wrapper._ngauss_at_shell_list)
        /\ Len(last.out.val.uncontr_wrapper._bas) = Len(Primitives)
        /\ \A k \in 1..Len(Primitives) :
              /\ last.out.val.uncontr_wrapper._bas[k][3] = 1
              /\ last.out.val.uncontr_wrapper._bas[k][2] = Primitives[k].angmom
              /\ last.out.val.uncontr_wrapper._bas[k][1] = Primitives[k].atom
              /\ last.out.val.uncontr_wrapper._allalphas_params[k] = Num(Primitives[k].alpha)
              /\ last.out.val.uncontr_wrapper._allcoeffs_params[k].num = Primitives[k].coeff
        /\ Len(last.out.val.uao2ao) = nao(last.out.val.uncontr_wrapper).val
        /\ \A k \in 1..Len(last.out.val.uao2ao) :
              last.out.val.uao2ao[k] \in 0..(nao(wrapper).val - 1)
        /\ \A a \in 0..(nao(wrapper).val - 1) :
              Occurrences(last.out.val.uao2ao, a)
                  = wrapper._ngauss_at_shell_list[wrapper._ao_to_shell[a + 1] + 1]

\* the expansion of an environment of two atoms with a shell of two
\* primitives and a shell of one has been made
C11_Witness ==
    /\ Expanded
    /\ wrapper._natoms = 2
    /\ wrapper._ngauss_at_shell_list = <<2, 1>>
    /\ Len(last.out.val.uncontr_wrapper._bas) = 3
    /\ Len(last.out.val.uao2ao) > nao(wrapper).val

\* __init__ has just run
Constructed == last.op = "__init__"

\* C14 as stated: building fails, whatever basis_normalized is, exactly when
\* some shell has an angular momentum outside 0..6.
C14_BuildFailsOutsideTable ==
    Constructed =>
        (last.out.raised # "none" <=>
            \E i \in 1..Len(wrapper._atombases) :
                \E k \in 1..Len(wrapper._atombases[i].bases) :
                    wrapper._atombases[i].bases[k].angmom \notin 0..(NFACTOR - 1))

\* C14 as amended: building fails, with IndexError and without making the
\* tables, exactly when basis_normalized is false and some shell has an
\* angular momentum above 6; a build that succeeds holds every coefficient
\* as given when basis_normalized is true, and times the normalization of
\* the table entry of its angular momentum otherwise.
C14_BuildFailsAboveTableUnlessNormalized ==
    Constructed =>
        /\ last.out.raised # "none" <=>
              /\ ~wrapper._basis_normalized
              /\ \E i \in 1..Len(wrapper._atombases) :
                    \E k \in 1..Len(wrapper._atombases[i].bases) :
                        wrapper._atombases[i].bases[k].angmom > NFACTOR - 1
        /\ last.out.raised # "none" => (last.out.raised = "IndexError" /\ ~Built(wrapper))
        /\ last.out.raised = "none" =>
              /\ Built(wrapper)
              /\ Len(wrapper._allcoeffs_params) = Len(Primitives)
              /\ \A k \in 1..Len(Primitives) :
                    wrapper._allcoeffs_params[k] =
                        IF wrapper._basis_normalized THEN Num(Primitives[k].coeff)
                        ELSE [num |-> Primitives[k].coeff, fac |-> Primitives[k].angmom,
                              alpha |-> Primitives[k].alpha]

\* a normalized basis with a shell of angular momentum 7 has been built
C14_Witness ==
    /\ Constructed
    /\ last.out.raised = "none"
    /\ wrapper._basis_normalized
    /\ wrapper._atombases[1].bases[1].angmom = NFACTOR
    /\ wrapper._allcoeffs_params[1] = Num(wrapper._atombases[1].bases[1].coeffs[1])

----------------------------------------------------------------------------
(* Evaluation of the orbitals on a grid: _EvalGTO *)

\* re.findall(r"^(?:ip)*(?:ip)?", shortname)[0]: the greedy run of pat that
\* starts shortname
RECURSIVE MatchAtStart(_, _)
MatchAtStart(s, pat) ==
    IF OccursAt(s, pat, 0)
    THEN pat \o MatchAtStart(StrFrom(s, Len(pat)), pat)
    ELSE <<>>

\* the output shape when every "ip" of the shortname adds an axis
_get_evalgto_outshape_anywhere(shortname, nao_tot, ngrid) ==
    PyRepeat(<<NDIM>>, CountAnywhere(shortname, IP)) \o <<nao_tot, ngrid>>

\* LibcintWrapper._get_evalgto_outshape(shortname, nao, ngrid)
_get_evalgto_outshape(shortname, nao_tot, ngrid) ==
    PyRepeat(<<NDIM>>, Len(MatchAtStart(shortname, IP)) \div 2) \o <<nao_tot, ngrid>>

\* LibcintWrapper._get_evalgto_derivname(shortname, derivmode)
_get_evalgto_derivname(shortname, derivmode) ==
    IF derivmode = "r" THEN IP \o shortname ELSE RuntimeError

\* what _EvalGTO.forward saves: the shortname of other_info and, of the
\* saved tensors, the sizes and which of them require gradient
EvalCtx(shortname, nao_tot, ngrid, pos_requires_grad, rgrid_requires_grad) ==
    [saved |-> TRUE, shortname |-> shortname, nao |-> nao_tot, ngrid |-> ngrid,
     pos_requires_grad |-> pos_requires_grad,
     rgrid_requires_grad |-> rgrid_requires_grad]

\* eval_gto_internal(shortname, rgrid): the shape of the tensor it returns
eval_gto_internal(shortname, nao_tot, ngrid) ==
    [op |-> "eval_gto_internal", on |-> "wrapper",
     out |-> Return(_get_evalgto_outshape(shortname, nao_tot, ngrid))]

\* a backward that returns a gradient for the contraction coefficients
EvalGTOBackward_coeffgrad(saved) ==
    [ran |-> TRUE, raised |-> "none", native |-> <<>>,
     grad_allalphas |-> "None", grad_allcoeffs |-> "tensor",
     grad_allposs |-> "None", grad_rgrid |-> "None"]

\* _EvalGTO.backward: the four gradients it returns (a gradient is recorded
\* by its shape, natom left symbolic) and the shortcut evaluated for them
EvalGTOBackward(saved) ==
    [ran |-> TRUE, raised |-> "none",
     native |-> IF saved.rgrid_requires_grad \/ saved.pos_requires_grad
                THEN <<_get_evalgto_derivname(saved.shortname, "r")>> ELSE <<>>,
     grad_allalphas |-> "None",
     grad_allcoeffs |-> "None",
     grad_allposs |-> IF saved.pos_requires_grad THEN "tensor" ELSE "None",
     grad_rgrid |-> IF saved.rgrid_requires_grad THEN <<saved.ngrid, NDIM>>
                    ELSE "None"]

\* the base names of the grid evaluation: the orbitals and their laplacian
LAPL == <<"l", "a", "p", "l">>
MaxTokens == 2
MaxNao == 2
MaxGrid == 2

\* the shortcuts the caller evaluates: up to MaxTokens markers "ip" and
\* "lapl" in any order
RECURSIVE GridShortcuts(_)
GridShortcuts(n) ==
    IF n = 0 THEN { <<>> }
    ELSE GridShortcuts(n - 1)
         \cup { tok \o s : tok \in {IP, LAPL}, s \in GridShortcuts(n - 1) }

InitEval ==
    /\ s1 = <<>>
    /\ s2 = <<>>
    /\ d1 = <<0, 0, 0, 0>>
    /\ d2 = <<0, 0, 0, 0>>
    /\ nerr = "none"
    /\ bw = NoBackward
    /\ EnvUnused
    /\ ProcIdle

\* LibcintWrapper._evalgto(shortname, rgrid): _EvalGTO.forward
EvalForward(shortname, nao_tot, ngrid, pos_requires_grad, rgrid_requires_grad) ==
    /\ last' = eval_gto_internal(shortname, nao_tot, ngrid)
    /\ ctx' = EvalCtx(shortname, nao_tot, ngrid, pos_requires_grad, rgrid_requires_grad)
    /\ bw' = NoBackward
    /\ UNCHANGED <<s1, s2, d1, d2, nerr, wrapper, subset, index, fw, pending, scope>>

\* _EvalGTO.backward of the last forward; the forward it makes for the
\* derivative saves its own context
EvalBackward ==
    /\ ctx.saved
    /\ CountAnywhere(ctx.shortname, IP) < MaxDeriv
    /\ bw' = EvalGTOBackward(ctx)
    /\ IF ctx.rgrid_requires_grad \/ ctx.pos_requires_grad
       THEN /\ last' = eval_gto_internal(_get_evalgto_derivname(ctx.shortname, "r"),
                                         ctx.nao, ctx.ngrid)
            /\ ctx' = [ctx EXCEPT !.shortname = _get_evalgto_derivname(@, "r")]
       ELSE UNCHANGED <<last, ctx>>
    /\ UNCHANGED <<s1, s2, d1, d2, nerr, wrapper, subset, index, fw, pending, scope>>

NextEval ==
    \/ \E shortname \in GridShortcuts(MaxTokens), nao_tot \in 1..MaxNao,
          ngrid \in 1..MaxGrid, pos_requires_grad, rgrid_requires_grad \in BOOLEAN :
          EvalForward(shortname, nao_tot, ngrid, pos_requires_grad, rgrid_requires_grad)
    \/ EvalBackward

SpecEvalGTO == InitEval /\ [][NextEval]_vars

----------------------------------------------------------------------------
(* Claims on the grid evaluation *)

\* shortname starts with k markers "ip" and not with k + 1
LeadingMarkers(shortname, k) ==
    /\ Len(shortname) >= 2 * k
    /\ SubSeq(shortname, 1, 2 * k) = Rep(IP, k)
    /\ ~(Len(shortname) >= 2 * k + 2 /\ SubSeq(shortname, 2 * k + 1, 2 * k + 2) = IP)

\* the shape of k axes of size 3 followed by (nao, ngrid)
ShapeWithAxes(k, nao_tot, ngrid) == [i \in 1..(k + 2) |->
    IF i <= k THEN 3 ELSE IF i = k + 1 THEN nao_tot ELSE ngrid]

\* C12: the output shape of a grid evaluation is k axes of size 3 followed
\* by (nao, ngrid), k being the number of consecutive "ip" markers at the
\* very start of the shortcut; later markers add no axis: "" and "lapl"
\* give 0 axes, "ip" and "iplapl" give 1, "ipip" gives 2.
C12_OutshapeCountsLeadingMarkers ==
    /\ (ctx.saved /\ last.op = "eval_gto_internal") =>
          \A k \in 0..Len(ctx.shortname) :
             LeadingMarkers(ctx.shortname, k) =>
                last.out = Return(ShapeWithAxes(k, ctx.nao, ctx.ngrid))
    /\ \A nao_tot \in 1..MaxNao, ngrid \in 1..MaxGrid :
          /\ _get_evalgto_outshape(<<>>, nao_tot, ngrid) = <<nao_tot, ngrid>>
          /\ _get_evalgto_outshape(LAPL, nao_tot, ngrid) = <<nao_tot, ngrid>>
          /\ _get_evalgto_outshape(IP, nao_tot, ngrid) = <<3, nao_tot, ngrid>>
          /\ _get_evalgto_outshape(IP \o LAPL, nao_tot, ngrid) = <<3, nao_tot, ngrid>>
          /\ _get_evalgto_outshape(IP \o IP, nao_tot, ngrid) = <<3, 3, nao_tot, ngrid>>

\* a shortcut with one leading marker and a later one has been evaluated
C12_Witness ==
    /\ ctx.saved
    /\ last.op = "eval_gto_internal"
    /\ ctx.shortname = IP \o LAPL \o IP
    /\ last.out = Return(<<3, ctx.nao, ctx.ngrid>>)

----------------------------------------------------------------------------
(* Specification of the backward calls: backward of one of the three        *)
(* operators runs on the context saved by a forward call on shortcut s1.     *)

\* the shortcuts of a list of forward calls
CallNames(calls) == [k \in 1..Len(calls) |-> calls[k].shortname]

\* backward, lines 431-436: how dout_dposT is obtained, by swapping the last
\* two axes of dout_dpos or by a forward call of its own
RightDerivative(shortname, allposs_requires_grad) ==
    IF ~allposs_requires_grad THEN [from |-> "unbound", transpose |-> <<>>]
    ELSE IF _int1e_shortname_equiv(_get_int1e_deriv_shortname(shortname, "r1"),
                                   _get_int1e_deriv_shortname(shortname, "r2"))
    THEN [from |-> "dout_dpos", transpose |-> <<-2, -1>>]
    ELSE [from |-> "native", transpose |-> <<>>]

\* one pass of the loop body, lines 465-482, for atom i: the row of
\* wrapper._atm read for the charge, the centre and the shortcuts of the
\* forward calls, and the row of grad_ratoms assigned
NucIteration(sname_rinv, ratoms, i) ==
    [i |-> i,
     atomz_row |-> i,
     centre |-> Row(ratoms, i),
     calls |-> CallNames(PairCalls(sname_rinv, Row(ratoms, i))),
     centres |-> [k \in 1..Len(PairCalls(sname_rinv, Row(ratoms, i))) |->
                     PairCalls(sname_rinv, Row(ratoms, i))[k].ratoms],
     grad_ratoms_row |-> i]

\* a loop that computes the row of the last atom only
NucLoop_last(sname_rinv, ratoms, i, natoms) ==
    IF i >= natoms THEN <<>>
    ELSE <<NucIteration(sname_rinv, ratoms, natoms - 1)>>

\* backward, lines 464-482: for i in range(natoms), the passes in order
RECURSIVE NucLoop(_, _, _, _)
NucLoop(sname_rinv, ratoms, i, natoms) ==
    IF i >= natoms THEN <<>>
    ELSE <<NucIteration(sname_rinv, ratoms, i)>>
         \o NucLoop(sname_rinv, ratoms, i + 1, natoms)

\* backward, lines 455-463: the passes of the loop over the atoms, made when
\* ratoms requires gradient and the shortcut contains "nuc"
NucPasses(saved, ratoms_requires_grad) ==
    IF ratoms_requires_grad /\ StrContains(saved.shortname, NUC)
    THEN NucLoop(StrReplace(saved.shortname, NUC, RINV), saved.ratoms, 0,
                 Len(saved.ratoms.data))
    ELSE <<>>

\* _Int1eFunction.backward: the gradients it returns and the shortcuts of
\* the forward calls it makes for them
Int1eBackwardReturn(saved, allposs_requires_grad, ratoms_requires_grad) ==
    [ran |-> TRUE, raised |-> "none",
     ratoms_requires_grad |-> ratoms_requires_grad,
     ratoms |-> saved.ratoms,
     nuc |-> NucPasses(saved, ratoms_requires_grad),
     native |-> [k \in 1..Len(Int1eBackwardCalls(saved, allposs_requires_grad,
                                                 ratoms_requires_grad)) |->
                    Int1eBackwardCalls(saved, allposs_requires_grad,
                                       ratoms_requires_grad)[k].shortname],
     allposs_requires_grad |-> allposs_requires_grad,
     pos_native |-> IF allposs_requires_grad
                    THEN CallNames(PairCalls(saved.shortname, saved.ratoms))
                    ELSE <<>>,
     dout_dposT |-> RightDerivative(saved.shortname, allposs_requires_grad),
     grad_allcoeffs |-> "None",
     grad_allalphas |-> "None",
     grad_allposs |-> IF allposs_requires_grad THEN "tensor" ELSE "None",
     grad_ratoms |-> IF ratoms_requires_grad
                        /\ (StrContains(saved.shortname, NUC)
                            \/ StrContains(saved.shortname, RINV))
                     THEN "tensor" ELSE "None"]

\* the shortcuts of the one-electron and two-electron forward calls whose
\* backward is run: fewer than MaxDeriv markers around the base names
Int1eShortcuts ==
    { Rep(IP, a) \o base \o Rep(IP, b) :
        base \in Int1eBaseNames,
        a \in 0..MaxDeriv, b \in 0..MaxDeriv }
Int2eShortcuts ==
    { Canon2e(d) : d \in { e \in [1..4 -> 0..MaxDeriv] : Total(e) < MaxDeriv } }

\* ratoms as saved by a forward call that returned: the centre for "rinv",
\* the positions of the atoms otherwise
SavedRatoms(shortname) ==
    IF StrContains(shortname, RINV) THEN Tensor(1, NumSeq(<<1, 2, 3>>))
    ELSE Tensor(2, [i \in 1..MaxAtoms |-> NumSeq(<<0, 0, i>>)])

InitBackward ==
    /\ s1 \in { s \in Int1eShortcuts : CountAnywhere(s, IP) < MaxDeriv }
              \cup Int2eShortcuts \cup GridShortcuts(MaxTokens)
    /\ s2 = <<>>
    /\ d1 = <<0, 0, 0, 0>>
    /\ d2 = <<0, 0, 0, 0>>
    /\ nerr = "none"
    /\ bw = NoBackward
    /\ EnvUnused
    /\ ProcIdle

\* backward of _Int1eFunction.apply(..., ratoms, wrapper, s1)
BackwardInt1e(allposs_requires_grad, ratoms_requires_grad) ==
    /\ s1 \in Int1eShortcuts
    /\ bw' = Int1eBackwardReturn([saved |-> TRUE, shortname |-> s1,
                                  ratoms |-> SavedRatoms(s1)],
                                 allposs_requires_grad, ratoms_requires_grad)
    /\ UNCHANGED <<s1, s2, d1, d2, nerr, envvars, procvars>>

\* backward of _Int2eFunction.apply(..., wrapper, s1)
BackwardInt2e(requires_grad) ==
    /\ s1 \in Int2eShortcuts
    /\ bw' = Int2eBackward(s1, requires_grad)
    /\ UNCHANGED <<s1, s2, d1, d2, nerr, envvars, procvars>>

\* backward of _EvalGTO.apply(..., rgrid, ao_to_atom, wrapper, s1)
BackwardEvalGTO(nao_tot, ngrid, pos_requires_grad, rgrid_requires_grad) ==
    /\ s1 \in GridShortcuts(MaxTokens)
    /\ bw' = EvalGTOBackward(EvalCtx(s1, nao_tot, ngrid, pos_requires_grad,
                                     rgrid_requires_grad))
    /\ UNCHANGED <<s1, s2, d1, d2, nerr, envvars, procvars>>

NextBackward ==
    \/ \E allposs_requires_grad, ratoms_requires_grad \in BOOLEAN :
          BackwardInt1e(allposs_requires_grad, ratoms_requires_grad)
    \/ \E requires_grad \in BOOLEAN : BackwardInt2e(requires_grad)
    \/ \E nao_tot \in 1..MaxNao, ngrid \in 1..MaxGrid,
          pos_requires_grad, rgrid_requires_grad \in BOOLEAN :
          BackwardEvalGTO(nao_tot, ngrid, pos_requires_grad, rgrid_requires_grad)

SpecBackward == InitBackward /\ [][NextBackward]_vars

----------------------------------------------------------------------------
(* Claims on the gradients that are not implemented *)

\* C13: in every backward call of the one-electron, two-electron and grid
\* operators, whatever the shortcut and whatever inputs require gradient,
\* the gradients for the contraction coefficients and for the exponents are
\* None, and no error is raised for them: the only error a backward call
\* raises is the one of a position tensor that was never assigned.
C13_CoeffAndExponentGradientsAreNone ==
    bw.ran =>
        /\ bw.grad_allcoeffs = "None"
        /\ bw.grad_allalphas = "None"
        /\ bw.raised # "none" =>
              /\ bw.raised = "UnboundLocalError"
              /\ bw.requires_grad
              /\ bw.b2 = "unbound"

\* a backward call that computed a position gradient has returned
C13_Witness ==
    /\ bw.ran
    /\ bw.raised = "none"
    /\ bw.grad_allposs = "tensor"
    /\ bw.native # <<>>
    /\ bw.grad_allcoeffs = "None"
    /\ bw.grad_allalphas = "None"

----------------------------------------------------------------------------
(* Claims on indexing a view *)

\* the uncontracted environment of the parent of the view
ParentUncontracted ==
    LibcintWrapper(UncontractedAtomBases(wrapper._atombases),
                   wrapper._spherical, wrapper._basis_normalized)

\* C15: indexing a shell-subset view raises NotImplementedError for every
\* argument and changes neither the view nor its parent; the uncontracted
\* expansion of a view never raises NotImplementedError and, for a view
\* whose shells are shells of its parent, returns a view made by indexing
\* the parent's uncontracted environment, which is no view.
C15_ViewIndexingNotImplemented ==
    /\ [](/\ (last.op = "__getitem__" /\ last.on = "subset") =>
                last.out = Raise("NotImplementedError")
          /\ (last.op = "get_uncontracted_wrapper" /\ last.on = "subset") =>
                /\ last.out.raised # "NotImplementedError"
                /\ ShellsInBas(subset) =>
                      /\ last.out.raised = "none"
                      /\ last.out.val.uncontr_wrapper.cls = "SubsetLibcintWrapper"
                      /\ Deref(last.out.val.uncontr_wrapper._parent) = ParentUncontracted
                      /\ "cls" \notin DOMAIN Deref(last.out.val.uncontr_wrapper._parent))
    /\ [][(last'.op = "__getitem__" /\ last'.on = "subset") =>
             (wrapper' = wrapper /\ subset' = subset)]_vars

\* a view made by a slice has been indexed by that slice
C15_Witness ==
    /\ subset.cls = "SubsetLibcintWrapper"
    /\ index.isslice
    /\ index.start = <<0>>
    /\ index.stop = <<1>>
    /\ last = [op |-> "__getitem__", on |-> "subset",
               out |-> Raise("NotImplementedError")]

\* the uncontracted expansion of a non-empty view has been derived
C15_ExpansionWitness ==
    /\ subset.cls = "SubsetLibcintWrapper"
    /\ last.op = "get_uncontracted_wrapper"
    /\ last.on = "subset"
    /\ last.out.raised = "none"
    /\ ShellsInBas(subset)
    /\ __len__(subset).val > 0

----------------------------------------------------------------------------
(* The exchange-correlation wrapper: libxc_wrapper.py *)

\* LDA_KEYS, GGA_KEYS, MGGA_KEYS: the names of the outputs of each
\* derivative order 0..4 (entry deriv + 1)
LDA_KEYS ==
    <<<<"zk">>,
      <<"vrho">>,
      <<"v2rho2">>,
      <<"v3rho3">>,
      <<"v4rho4">>>>

GGA_KEYS ==
    <<<<"zk">>,
      <<"vrho", "vsigma">>,
      <<"v2rho2", "v2rhosigma", "v2sigma2">>,
      <<"v3rho3", "v3rho2sigma", "v3rhosigma2", "v3sigma3">>,
      <<"v4rho4", "v4rho3sigma", "v4rho2sigma2", "v4rhosigma3", "v4sigma4">>>>

MGGA_KEYS ==
    <<<<"zk">>,
      <<"vrho", "vsigma", "vlapl", "vtau">>,
      <<"v2rho2", "v2rhosigma", "v2rholapl", "v2rhotau", "v2sigma2",
        "v2sigmalapl", "v2sigmatau", "v2lapl2", "v2lapltau", "v2tau2">>,
      <<"v3rho3", "v3rho2sigma", "v3rho2lapl", "v3rho2tau", "v3rhosigma2",
        "v3rhosigmalapl", "v3rhosigmatau", "v3rholapl2", "v3rholapltau",
        "v3rhotau2", "v3sigma3", "v3sigma2lapl", "v3sigma2tau",
        "v3sigmalapl2", "v3sigmalapltau", "v3sigmatau2", "v3lapl3",
        "v3lapl2tau", "v3lapltau2", "v3tau3">>,
      <<"v4rho4", "v4rho3sigma", "v4rho3lapl", "v4rho3tau", "v4rho2sigma2",
        "v4rho2sigmalapl", "v4rho2sigmatau", "v4rho2lapl2", "v4rho2lapltau",
        "v4rho2tau2", "v4rhosigma3", "v4rhosigma2lapl", "v4rhosigma2tau",
        "v4rhosigmalapl2", "v4rhosigmalapltau", "v4rhosigmatau2",
        "v4rholapl3", "v4rholapl2tau", "v4rholapltau2", "v4rhotau3",
        "v4sigma4", "v4sigma3lapl", "v4sigma3tau", "v4sigma2lapl2",
        "v4sigma2lapltau", "v4sigma2tau2", "v4sigmalapl3",
        "v4sigmalapl2tau", "v4sigmalapltau2", "v4sigmatau3", "v4lapl4",
        "v4lapl3tau", "v4lapl2tau2", "v4lapltau3", "v4tau4">>>>

\* the families of the wrapper classes: LDA, GGA, MGGA
Families == {1, 2, 4}

\* the name table of a functional of a family
KeysOf(family) ==
    IF family = 1 THEN LDA_KEYS ELSE IF family = 2 THEN GGA_KEYS ELSE MGGA_KEYS

\* _get_dos(deriv): (do_exc, do_vxc, do_fxc, do_kxc, do_lxc)
_get_dos(deriv) == <<deriv = 0, deriv = 1, deriv = 2, deriv = 3, deriv = 4>>

\* an array as the oracle hands it out, a(v) = torch.as_tensor(v.T) of it,
\* and its product with a density
OracleArray(key) == [key |-> key, layout |-> "libxc", times |-> "nothing"]
AsTensorT(v) == [v EXCEPT !.layout = "torch, transposed"]
Times(v, rho) == [v EXCEPT !.times = rho]

\* libxcfcn.compute(inp, do_exc, ..., do_lxc) of a functional of a family:
\* one array under each name of each order asked for
compute(family, dos) ==
    [key \in UNION { { KeysOf(family)[i][j] : j \in 1..Len(KeysOf(family)[i]) } :
                     i \in { k \in 1..5 : dos[k] } } |-> OracleArray(key)]

\* _extract_returns(ret, deriv, family); keys[deriv] of a list of five
\* entries raises IndexError from deriv = 5 on
_extract_returns(ret, deriv, family) ==
    IF family \notin {1, 2, 4} THEN Raise("RuntimeError")
    ELSE IF ~(deriv >= -5 /\ deriv < 5) THEN Raise("IndexError")
    ELSE IF \E j \in 1..Len(KeysOf(family)[PyIndex(deriv, 5) + 1]) :
               KeysOf(family)[PyIndex(deriv, 5) + 1][j] \notin DOMAIN ret
    THEN Raise("KeyError")
    ELSE Return([j \in 1..Len(KeysOf(family)[PyIndex(deriv, 5) + 1]) |->
                    AsTensorT(ret[KeysOf(family)[PyIndex(deriv, 5) + 1][j]])])

\* the total density: rho, or rho[:, 0] + rho[:, 1] of a polarized input
TotalDensity(polarized) == IF polarized THEN "rho_u + rho_d" ELSE "rho"

\* lines 399-411 done whatever the order
ScaleFirst_always(res, deriv, polarized) ==
    IF res.raised # "none" THEN res
    ELSE Return(<<Times(res.val[1], TotalDensity(polarized))>> \o Tail(res.val))

\* _get_libxc_res, lines 399-411: the first output of order 0 is multiplied
\* by the total density
ScaleFirst(res, deriv, polarized) ==
    IF res.raised # "none" THEN res
    ELSE IF deriv = 0
    THEN Return(<<Times(res.val[1], TotalDensity(polarized))>> \o Tail(res.val))
    ELSE res

\* _get_libxc_res(inp, deriv, libxcfcn, family, polarized)
_get_libxc_res(deriv, family, polarized) ==
    ScaleFirst(_extract_returns(compute(family, _get_dos(deriv)), deriv, family),
               deriv, polarized)

\* the number of tensor inputs of the forward of a class
NInputs(family, polarized) ==
    IF family = 1 THEN (IF polarized THEN 2 ELSE 1)
    ELSE IF family = 2 THEN (IF polarized THEN 5 ELSE 2)
    ELSE (IF polarized THEN 9 ELSE 4)

\* backward: the highest order for which the class has deriv_idxs; the
\* backward of CalcLDALibXCUnpol has no table and no check
LastTabulated(family, polarized) == IF family = 4 /\ polarized THEN 2 ELSE 3
TableMissing(family, polarized, deriv) ==
    /\ ~(family = 1 /\ ~polarized)
    /\ ~(deriv >= 0 /\ deriv <= LastTabulated(family, polarized))

\* _get_grad_inps: a gradient for each input that needs one
_get_grad_inps(needs_input_grad) ==
    [i \in 1..Len(needs_input_grad) |->
        IF needs_input_grad[i] THEN "tensor" ELSE "None"]

\* a forward call: the class, the order, the outcome and the flags of each
\* invocation of the oracle
XCCall(family, polarized, deriv) ==
    [op |-> "forward", on |-> "libxcfcn", family |-> family,
     polarized |-> polarized, deriv |-> deriv,
     out |-> _get_libxc_res(deriv, family, polarized),
     oracle |-> <<_get_dos(deriv)>>]

\* backward of the class on the saved order: the forward at deriv + 1 comes
\* first, then the table, then the gradients
XCBackwardReturn(saved, needs_input_grad) ==
    [ran |-> TRUE, family |-> saved.family, polarized |-> saved.polarized,
     deriv |-> saved.deriv,
     oracle |-> <<_get_dos(saved.deriv + 1)>>,
     raised |-> IF _get_libxc_res(saved.deriv + 1, saved.family,
                                  saved.polarized).raised # "none"
                THEN _get_libxc_res(saved.deriv + 1, saved.family,
                                    saved.polarized).raised
                ELSE IF TableMissing(saved.family, saved.polarized, saved.deriv)
                THEN "RuntimeError"
                ELSE "none",
     grad_inps |-> IF saved.family = 1 /\ ~saved.polarized
                   THEN <<"tensor">>
                   ELSE _get_grad_inps(needs_input_grad)]

\* Bounds: the highest order handed to forward
MaxXCDeriv == 5

\* which inputs need a gradient: all of them, the first only, the last
\* only, or none
NeedsInputGrad(n) ==
    { [i \in 1..n |-> TRUE], [i \in 1..n |-> i = 1], [i \in 1..n |-> i = n],
      [i \in 1..n |-> FALSE] }

InitXC ==
    /\ s1 = <<>>
    /\ s2 = <<>>
    /\ d1 = <<0, 0, 0, 0>>
    /\ d2 = <<0, 0, 0, 0>>
    /\ nerr = "none"
    /\ bw = NoBackward
    /\ EnvUnused
    /\ ProcIdle

\* Calc*LibXC*.forward(ctx, ..., deriv, libxcfcn)
XCForward(family, polarized, deriv) ==
    /\ last' = XCCall(family, polarized, deriv)
    /\ ctx' = IF XCCall(family, polarized, deriv).out.raised = "none"
              THEN [saved |-> TRUE, family |-> family, polarized |-> polarized,
                    deriv |-> deriv]
              ELSE NoCtx
    /\ bw' = NoBackward
    /\ UNCHANGED <<s1, s2, d1, d2, nerr, wrapper, subset, index, fw, pending, scope>>

\* Calc*LibXC*.backward(ctx, *grad_res) of the last forward that returned
XCBackward(needs_input_grad) ==
    /\ ctx.saved
    /\ bw' = XCBackwardReturn(ctx, needs_input_grad)
    /\ last' = XCCall(ctx.family, ctx.polarized, ctx.deriv + 1)
    /\ ctx' = IF XCBackwardReturn(ctx, needs_input_grad).raised = "none"
              THEN [ctx EXCEPT !.deriv = @ + 1]
              ELSE NoCtx
    /\ UNCHANGED <<s1, s2, d1, d2, nerr, wrapper, subset, index, fw, pending, scope>>

NextXC ==
    \/ \E family \in Families, polarized \in BOOLEAN, deriv \in 0..MaxXCDeriv :
          XCForward(family, polarized, deriv)
    \/ (ctx.saved
        /\ \E needs_input_grad \in NeedsInputGrad(NInputs(ctx.family, ctx.polarized)) :
              XCBackward(needs_input_grad))

SpecXC == InitXC /\ [][NextXC]_vars

----------------------------------------------------------------------------
(* Claims on the exchange-correlation wrapper *)

\* C16: _get_libxc_res multiplies the first output by the total density
\* (rho, or spin-up plus spin-down) exactly when the order is 0; every
\* other output, and every output of the orders 1 to 4, is the array the
\* oracle produced under the name at that place of the family's name table.
C16_OnlyEnergyIsScaled ==
    (last.op = "forward" /\ last.out.raised = "none") =>
        /\ Len(last.out.val) = Len(KeysOf(last.family)[last.deriv + 1])
        /\ \A j \in 1..Len(last.out.val) :
              /\ last.out.val[j].key = KeysOf(last.family)[last.deriv + 1][j]
              /\ [last.out.val[j] EXCEPT !.times = "nothing"]
                    = AsTensorT(OracleArray(last.out.val[j].key))
              /\ last.out.val[j].times =
                    IF last.deriv = 0 /\ j = 1
                    THEN (IF last.polarized THEN "rho_u + rho_d" ELSE "rho")
                    ELSE "nothing"

\* the energy of a polarized functional and the three second derivatives of
\* a GGA have been returned
C16_Witness ==
    /\ last.op = "forward"
    /\ last.family = 2
    /\ last.deriv = 2
    /\ last.out.raised = "none"
    /\ Len(last.out.val) = 3
    /\ last.out.val[2].key = "v2rhosigma"
    /\ bw.ran
    /\ bw.raised = "none"

\* C17: a forward call with an order above 4, and a backward call at an
\* order for which the class has no index table, raise the explicit
\* RuntimeError of the wrapper, for every family and polarization, and the
\* oracle has not been invoked for that order when the error is raised.
C17_UnsupportedOrderRaisesBeforeOracle ==
    /\ (last.op = "forward" /\ last.deriv > 4) =>
          /\ last.out.raised = "RuntimeError"
          /\ last.oracle = <<>>
    /\ (bw.ran /\ bw.deriv > LastTabulated(bw.family, bw.polarized)) =>
          /\ bw.raised = "RuntimeError"
          /\ bw.oracle = <<>>

----------------------------------------------------------------------------
(* Claims on the order of the steps of a centred forward call *)

\* C19: a one-electron forward call is inside a centring scope exactly when
\* its shortcut contains "rinv"; the scope is entered (the centre region
\* saved and the passed centre installed) before the native evaluation and
\* left (prev_centre assigned back) after it; during the native evaluation
\* the centre region holds the centre passed to the call; the derivative
\* names of a "rinv" shortcut contain "rinv"; and the centre region changes
\* only in a step of a call whose shortcut contains "rinv".
C19_CentredExactlyForRinv ==
    /\ [](/\ fw.pc \in {"ready", "native", "finally"} =>
                (scope.active > 0 <=> StrContains(fw.shortname, RINV))
          /\ (fw.pc \in {"ready", "native"} /\ StrContains(fw.shortname, RINV)) =>
                /\ scope.prev_centre = CentreView
                /\ CentreRegion(wrapper._env) = fw.ratoms.data
                /\ scope.evals = (IF fw.pc = "ready" THEN 0 ELSE 1)
          /\ \A s \in {fw.shortname, ctx.shortname} : \A m \in Int1eModes :
                StrContains(s, RINV) =>
                   StrContains(_get_int1e_deriv_shortname(s, m), RINV)
          /\ \A k \in 1..Len(pending) :
                (ctx.saved /\ StrContains(ctx.shortname, RINV)) =>
                   StrContains(pending[k].shortname, RINV))
    /\ [][/\ CentreRegion(wrapper'._env) # CentreRegion(wrapper._env) =>
                \/ StrContains(fw.shortname, RINV)
                \/ StrContains(fw'.shortname, RINV)
          /\ scope'.active > scope.active =>
                /\ fw.pc = "idle"
                /\ fw'.pc = "ready"
                /\ CentreRegion(wrapper'._env) = fw'.ratoms.data
                /\ scope'.entry_centre = CentreRegion(wrapper._env)
          /\ scope'.active < scope.active =>
                /\ fw.pc = "finally"
                /\ scope.evals = 1
                /\ wrapper'._env = CentreExit(wrapper._env, scope.prev_centre)]_vars

\* the native evaluation of a derivative of "rinv" runs inside a scope, on
\* the centre passed to the call
C19_Witness ==
    /\ fw.pc = "native"
    /\ StrContains(fw.shortname, RINV)
    /\ StrContains(fw.shortname, IP)
    /\ scope.active = 1
    /\ CentreRegion(wrapper._env) = fw.ratoms.data
    /\ CentreRegion(wrapper._env) # BuiltCentre

----------------------------------------------------------------------------
(* Claims on the forward calls of the position gradient *)

\* C20: for the position gradient, _Int1eFunction.backward makes no forward
\* call when the positions do not require gradient; when they do, it makes
\* one forward call, for "ip" + shortcut, and takes the right derivative as
\* the left one with its last two axes swapped, if "ip" + shortcut and
\* shortcut + "ip" are equivalent, which is so exactly when the shortcut
\* starts and ends with equally many "ip"; otherwise it makes two calls,
\* for "ip" + shortcut and then for shortcut + "ip".
C20_PositionGradientCalls ==
    (bw.ran /\ s1 \in Int1eShortcuts) =>
        \A base \in Int1eBaseNames : \A a, b \in 0..(MaxDeriv + 1) :
            s1 = Rep(IP, a) \o base \o Rep(IP, b) =>
                /\ _int1e_shortname_equiv(IP \o s1, s1 \o IP) <=> (a = b)
                /\ ~bw.allposs_requires_grad =>
                      /\ bw.pos_native = <<>>
                      /\ bw.dout_dposT.from = "unbound"
                /\ (bw.allposs_requires_grad /\ a = b) =>
                      /\ bw.pos_native = <<IP \o s1>>
                      /\ bw.dout_dposT = [from |-> "dout_dpos", transpose |-> <<-2, -1>>]
                /\ (bw.allposs_requires_grad /\ a # b) =>
                      /\ bw.pos_native = <<IP \o s1, s1 \o IP>>
                      /\ bw.dout_dposT.from = "native"

\* the position gradient of "ip" + base + "ip" has been obtained with one
\* forward call
C20_Witness ==
    /\ bw.ran
    /\ s1 \in { IP \o base \o IP : base \in Int1eBaseNames }
    /\ bw.allposs_requires_grad
    /\ Len(bw.pos_native) = 1
    /\ bw.dout_dposT.from = "dout_dpos"

----------------------------------------------------------------------------
(* Claims on the native evaluations of the two-electron backward *)

\* two vectors of marker counts are related by swaps inside the operand
\* pairs and by the swap of the two pairs
Related2e(u, v) ==
    \/ (UPairEq(u[1], u[2], v[1], v[2]) /\ UPairEq(u[3], u[4], v[3], v[4]))
    \/ (UPairEq(u[1], u[2], v[3], v[4]) /\ UPairEq(u[3], u[4], v[1], v[2]))

\* the classes of the four first derivatives of the shortcut with counts d
DerivativeClasses(d) ==
    { { j \in 1..4 : Related2e(Bump(d, k), Bump(d, j)) } : k \in 1..4 }

\* C21: in _Int2eFunction.backward with positions requiring gradient, the
\* derived shortcut of position k (a1, a2, b1, b2) is evaluated natively
\* exactly when it is related to none of the positions before it, so the
\* native evaluations are as many as the classes of the four derived
\* shortcuts; for "ar12b" the one native evaluation is that of "ipar12b".
C21_NativeOncePerClass ==
    (bw.ran /\ bw.requires_grad) =>
        /\ s1 = Canon2e(d1)
        /\ \A k \in 1..4 :
              (\E n \in 1..Len(bw.native) : bw.native[n] = Canon2e(Bump(d1, k)))
                 <=> (\A j \in 1..(k - 1) : ~Related2e(Bump(d1, j), Bump(d1, k)))
        /\ \A n, m \in 1..Len(bw.native) :
              bw.native[n] = bw.native[m] => n = m
        /\ Len(bw.native) = Cardinality(DerivativeClasses(d1))
        /\ s1 = Int2eBaseName => bw.native = <<IP \o Int2eBaseName>>

\* a backward with three native evaluations: the derivatives after 'a' and
\* before 'b' of "ipar12b" are related, the two others are not
C21_Witness ==
    /\ bw.ran
    /\ bw.requires_grad
    /\ d1 = <<1, 0, 0, 0>>
    /\ Len(bw.native) = 3

----------------------------------------------------------------------------
(* Claims on the gradient with respect to the positions of the nuclei *)

\* the concatenation of the call lists of the passes from k on
RECURSIVE PassCalls(_, _)
PassCalls(passes, k) ==
    IF k > Len(passes) THEN <<>> ELSE passes[k].calls \o PassCalls(passes, k + 1)

\* C22: when ratoms requires gradient and the shortcut contains "nuc",
\* _Int1eFunction.backward makes one pass per atom, pass k for atom k - 1,
\* so the atoms 0..natoms-1 are visited once each in increasing order; the
\* pass evaluates the left derivative of the shortcut with "nuc" replaced
\* by "rinv", and the right derivative only if the two names are not
\* equivalent, with ratoms[i] as centre, and assigns row i of grad_ratoms,
\* so that every row is assigned exactly once.  These are the only forward
\* calls made for grad_ratoms.
C22_NucLoopVisitsEveryAtomOnce ==
    (bw.ran /\ s1 \in Int1eShortcuts /\ bw.ratoms_requires_grad
            /\ StrContains(s1, NUC)) =>
        LET natoms == Len(bw.ratoms.data)
            sname_rinv == StrReplace(s1, NUC, RINV)
            left == IP \o sname_rinv
            right == sname_rinv \o IP
        IN  /\ Len(bw.nuc) = natoms
            /\ \A k \in 1..natoms :
                  /\ bw.nuc[k].i = k - 1
                  /\ bw.nuc[k].atomz_row = k - 1
                  /\ bw.nuc[k].grad_ratoms_row = k - 1
                  /\ bw.nuc[k].calls =
                        IF _int1e_shortname_equiv(left, right) THEN <<left>>
                        ELSE <<left, right>>
                  /\ \A c \in 1..Len(bw.nuc[k].centres) :
                        bw.nuc[k].centres[c] = Tensor(1, bw.ratoms.data[k])
            /\ \A r \in 0..(natoms - 1) :
                  Cardinality({ k \in 1..natoms : bw.nuc[k].grad_ratoms_row = r }) = 1
            /\ bw.grad_ratoms = "tensor"
            /\ bw.native = bw.pos_native \o PassCalls(bw.nuc, 1)

\* the backward of "ipnuc": a pass per atom, each with two forward
\* calls, for the names "ipiprinv" and "iprinvip"
C22_Witness ==
    /\ bw.ran
    /\ s1 = IP \o NUC
    /\ bw.ratoms_requires_grad
    /\ ~bw.allposs_requires_grad
    /\ Len(bw.nuc) = MaxAtoms
    /\ MaxAtoms >= 2
    /\ bw.nuc[2].calls = <<IP \o IP \o RINV, IP \o RINV \o IP>>
    /\ SubSeq(bw.native, 1, 4) = <<IP \o IP \o RINV, IP \o RINV \o IP,
                                   IP \o IP \o RINV, IP \o RINV \o IP>>

----------------------------------------------------------------------------
(* Claims on the uncontracted expansion of a view *)

\* sum(ngauss_at_shell[0..s-1]) of the parent of the view
GaussBefore(s) ==
    PySum([k \in 1..s |-> wrapper._ngauss_at_shell_list[k]])

\* the view covers shells of its parent: 0 <= s0 <= s1 <= number of shells
ViewInsideParent ==
    /\ 0 <= shell_idxs(subset)[1]
    /\ shell_idxs(subset)[1] <= shell_idxs(subset)[2]
    /\ shell_idxs(subset)[2] <= Len(wrapper._bas)

\* what get_uncontracted_wrapper of the view [s0, s1) is to return: a view
\* of the parent's uncontracted environment over the primitives of the
\* shells s0..s1-1, and a map as long as that view's orbital count with
\* values in [0, nao of the view)
UncontractedViewReturned ==
    /\ last.out.raised = "none"
    /\ last.out.val.uncontr_wrapper.cls = "SubsetLibcintWrapper"
    /\ Deref(last.out.val.uncontr_wrapper._parent) = ParentUncontracted
    /\ shell_idxs(last.out.val.uncontr_wrapper)
          = <<GaussBefore(shell_idxs(subset)[1]), GaussBefore(shell_idxs(subset)[2])>>
    /\ nao(last.out.val.uncontr_wrapper) = Return(Len(last.out.val.uao2ao))
    /\ nao(subset).raised = "none"
    /\ \A k \in 1..Len(last.out.val.uao2ao) :
          last.out.val.uao2ao[k] >= 0 /\ last.out.val.uao2ao[k] < nao(subset).val

\* C23: get_uncontracted_wrapper of a view over the shells [s0, s1) returns
\* a view of the parent's uncontracted environment over the primitives of
\* the shells s0..s1-1, and an orbital map whose length is the orbital
\* count of that view and whose values lie in [0, nao of the view).
C23_UncontractedViewOfSubset ==
    (last.op = "get_uncontracted_wrapper" /\ last.on = "subset")
        => UncontractedViewReturned

\* the same for the views that cover shells of their parent
C23_InsideParent ==
    (last.op = "get_uncontracted_wrapper" /\ last.on = "subset" /\ ViewInsideParent)
        => UncontractedViewReturned

----------------------------------------------------------------------------
(* Claims on the tuples that the backward functions return *)

\* an input of a forward: its name, and whether it is a tensor that can
\* take a gradient
FwdInput(name, differentiable) == [name |-> name, differentiable |-> differentiable]

\* the inputs of the three forward functions after ctx, in order
Int1eForwardInputs ==
    <<FwdInput("allcoeffs", TRUE), FwdInput("allalphas", TRUE),
      FwdInput("allposs", TRUE), FwdInput("ratoms", TRUE),
      FwdInput("wrapper", FALSE), FwdInput("shortname", FALSE)>>
Int2eForwardInputs ==
    <<FwdInput("allcoeffs", TRUE), FwdInput("allalphas", TRUE),
      FwdInput("allposs", TRUE),
      FwdInput("wrapper", FALSE), FwdInput("shortname", FALSE)>>
EvalGTOForwardInputs ==
    <<FwdInput("alphas", TRUE), FwdInput("coeffs", TRUE),
      FwdInput("pos", TRUE), FwdInput("rgrid", TRUE),
      FwdInput("ao_to_atom", FALSE), FwdInput("wrapper", FALSE),
      FwdInput("shortname", FALSE)>>

\* the return statements of the three backward functions on the gradients
\* held by b
Int1eReturnTuple(b) ==
    <<b.grad_allcoeffs, b.grad_allalphas, b.grad_allposs, b.grad_ratoms,
      "None", "None">>
Int2eReturnTuple(b) ==
    <<b.grad_allcoeffs, b.grad_allalphas, b.grad_allposs, "None", "None">>
EvalGTOReturnTuple(b) ==
    <<b.grad_allalphas, b.grad_allcoeffs, b.grad_allposs, b.grad_rgrid,
      "None", "None", "None", "None", "None">>

\* the forward inputs and the returned tuple of the operator of shortcut
\* shortname
ForwardInputsOf(shortname) ==
    IF shortname \in Int1eShortcuts THEN Int1eForwardInputs
    ELSE IF shortname \in Int2eShortcuts THEN Int2eForwardInputs
    ELSE EvalGTOForwardInputs
ReturnTupleOf(shortname, b) ==
    IF shortname \in Int1eShortcuts THEN Int1eReturnTuple(b)
    ELSE IF shortname \in Int2eShortcuts THEN Int2eReturnTuple(b)
    ELSE EvalGTOReturnTuple(b)

\* a returned tuple has one entry per forward input, None for the inputs
\* that are no tensors
OnePerInput(inputs, returned) ==
    /\ Len(returned) = Len(inputs)
    /\ \A k \in 1..Len(inputs) : ~inputs[k].differentiable => returned[k] = "None"

\* C24: a backward of the one-electron, two-electron and grid operators
\* that returns, returns one entry per input of its forward, in the order
\* of the inputs, with None for every input that is no tensor.
C24_OneGradientPerForwardInput ==
    (bw.ran /\ bw.raised = "none") =>
        OnePerInput(ForwardInputsOf(s1), ReturnTupleOf(s1, bw))

\* the same for the one-electron and two-electron operators alone
C24_IntegralsOnePerInput ==
    (bw.ran /\ bw.raised = "none" /\ s1 \in Int1eShortcuts \cup Int2eShortcuts) =>
        OnePerInput(ForwardInputsOf(s1), ReturnTupleOf(s1, bw))

\* the inputs of the forward of an exchange-correlation class: the density
\* tensors, then deriv and libxcfcn
XCForwardInputs(family, polarized) ==
    [k \in 1..NInputs(family, polarized) |-> FwdInput("density", TRUE)]
    \o <<FwdInput("deriv", FALSE), FwdInput("libxcfcn", FALSE)>>

\* the return statements of the exchange-correlation backward functions:
\* (grad_rho, None, None) and (*grad_inps, None, None)
XCReturnTuple(b) == b.grad_inps \o <<"None", "None">>

\* the same for the six exchange-correlation classes
C24_XCOnePerInput ==
    (bw.ran /\ bw.raised = "none") =>
        OnePerInput(XCForwardInputs(bw.family, bw.polarized), XCReturnTuple(bw))

----------------------------------------------------------------------------
(* Occupation numbers: utils/safeops.py.  A number is held as its          *)
(* numerator over OccDen, so that 1 is OccDen and a half is OccDen / 2.     *)

\* Bounds: the denominator of the numbers, the largest a and the largest n
OccDen == 2
MaxOcc == 3
MaxOccLen == 4

\* a of occnumber: an int, a float, or a tensor of one element holding an
\* integer or a floating-point number
OccInput(kind, num) == [kind |-> kind, num |-> num]
OccInputs ==
    { OccInput(kind, num) :
        kind \in {"float", "tensor_float"}, num \in 0..(MaxOcc * OccDen) }
    \cup { OccInput(kind, w * OccDen) :
             kind \in {"int", "tensor_int"}, w \in 0..MaxOcc }

\* _get_floor_and_ceil without the branch for int
_get_floor_and_ceil_truncating(aa) ==
    [floor_a |-> aa.num \div OccDen, ceil_a |-> aa.num \div OccDen]

\* _get_floor_and_ceil(aa): aa itself for an int, math.floor and math.ceil
\* otherwise
_get_floor_and_ceil(aa) ==
    IF aa.kind \in {"int", "tensor_int"}
    THEN [floor_a |-> aa.num \div OccDen, ceil_a |-> aa.num \div OccDen]
    ELSE [floor_a |-> aa.num \div OccDen,
          ceil_a |-> -((-aa.num) \div OccDen)]

\* _construct_occ_number: zeros(nlength), res[:floor_a] = 1 and, under
\* ceil_a > floor_a, res[ceil_a - 1] = a - floor_a
_construct_occ_number(a_num, floor_a, ceil_a, nlength) ==
    IF ceil_a > floor_a /\ ~(ceil_a - 1 >= -nlength /\ ceil_a - 1 < nlength)
    THEN Raise("IndexError")
    ELSE Return([k \in 1..nlength |->
                    IF ceil_a > floor_a /\ k = PyIndex(ceil_a - 1, nlength) + 1
                    THEN a_num - floor_a * OccDen
                    ELSE IF k <= PyBound(floor_a, nlength) THEN OccDen
                    ELSE 0])

\* occnumber(a, n): n is <<>> when absent
occnumber(a, n) ==
    IF n # NoneInt /\ ~(n[1] >= _get_floor_and_ceil(a).ceil_a)
    THEN Raise("AssertionError")
    ELSE _construct_occ_number(a.num, _get_floor_and_ceil(a).floor_a,
                               _get_floor_and_ceil(a).ceil_a,
                               IF n = NoneInt THEN _get_floor_and_ceil(a).ceil_a
                               ELSE n[1])

\* _OccNumber.forward: the inputs after ctx
OccForwardInputs ==
    <<FwdInput("a", TRUE), FwdInput("floor_a", FALSE), FwdInput("ceil_a", FALSE),
      FwdInput("nlength", FALSE), FwdInput("dtype", FALSE),
      FwdInput("device", FALSE)>>

\* _OccNumber.backward: grad_res[ctx.ceil_a - 1], then (grad_a,) + (None,) * 5
OccBackwardReturn(ceil_a, nlength) ==
    [ran |-> TRUE,
     raised |-> IF ceil_a - 1 >= -nlength /\ ceil_a - 1 < nlength
                THEN "none" ELSE "IndexError",
     grad_a |-> PyIndex(ceil_a - 1, nlength),
     returned |-> <<"tensor">> \o [k \in 1..5 |-> "None"]]

InitOcc ==
    /\ s1 = <<>>
    /\ s2 = <<>>
    /\ d1 = <<0, 0, 0, 0>>
    /\ d2 = <<0, 0, 0, 0>>
    /\ nerr = "none"
    /\ bw = NoBackward
    /\ EnvUnused
    /\ ProcIdle

\* the caller runs occnumber(a, n)
OccNumberCall(a, n) ==
    /\ last' = [op |-> "occnumber", on |-> "safeops", a |-> a, n |-> n,
                out |-> occnumber(a, n)]
    /\ bw' = NoBackward
    /\ UNCHANGED <<s1, s2, d1, d2, nerr, wrapper, subset, index, procvars>>

\* _OccNumber.backward of the last call, made on a tensor, that returned
OccNumberBackward ==
    /\ last.op = "occnumber"
    /\ last.a.kind \in {"tensor_float", "tensor_int"}
    /\ last.out.raised = "none"
    /\ ~bw.ran
    /\ bw' = OccBackwardReturn(_get_floor_and_ceil(last.a).ceil_a, Len(last.out.val))
    /\ UNCHANGED <<s1, s2, d1, d2, nerr, envvars, procvars>>

NextOcc ==
    \/ \E a \in OccInputs, n \in OptInts(0, MaxOccLen) : OccNumberCall(a, n)
    \/ OccNumberBackward

SpecOcc == InitOcc /\ [][NextOcc]_vars

\* the sum of the entries of a vector
RECURSIVE OccSum(_)
OccSum(v) == IF v = <<>> THEN 0 ELSE Head(v) + OccSum(Tail(v))

\* C25: for a >= 0, occnumber(a, n) raises AssertionError when n is given
\* and n < ceil(a); otherwise it returns a vector of length n, or ceil(a)
\* when n is absent, whose first floor(a) entries are 1, whose entry at
\* index ceil(a) - 1 is a - floor(a) when a is no integer, and whose other
\* entries are 0, so that every entry lies in [0, 1] and the entries sum
\* to a.
C25_OccupationVector ==
    last.op = "occnumber" =>
        LET fl == last.a.num \div OccDen
            frac == last.a.num % OccDen
            ce == IF frac = 0 THEN fl ELSE fl + 1
        IN  IF last.n # NoneInt /\ last.n[1] < ce
            THEN last.out = Raise("AssertionError")
            ELSE /\ last.out.raised = "none"
                 /\ Len(last.out.val) = (IF last.n = NoneInt THEN ce ELSE last.n[1])
                 /\ \A k \in 1..Len(last.out.val) :
                       /\ k <= fl => last.out.val[k] = OccDen
                       /\ (frac # 0 /\ k = ce) => last.out.val[k] = frac
                       /\ k > ce => last.out.val[k] = 0
                       /\ last.out.val[k] >= 0
                       /\ last.out.val[k] <= OccDen
                 /\ OccSum(last.out.val) = last.a.num

\* occnumber(1.5, 3) has returned (1, 0.5, 0)
C25_Witness ==
    /\ last.op = "occnumber"
    /\ last.a = OccInput("float", OccDen + 1)
    /\ last.n = <<3>>
    /\ last.out = Return(<<OccDen, 1, 0>>)

\* occnumber(1.5, 1) has been rejected
C25_RejectedWitness ==
    /\ last.op = "occnumber"
    /\ last.a = OccInput("tensor_float", OccDen + 1)
    /\ last.n = <<1>>
    /\ last.out = Raise("AssertionError")

\* the same as C24 for _OccNumber
C24_OccOnePerInput ==
    (bw.ran /\ bw.raised = "none") => OnePerInput(OccForwardInputs, bw.returned)

----------------------------------------------------------------------------
(* Unit conversion: utils/units.py.  A converter is the list of its         *)
(* entries in the order of the dict; a factor is held by its expression.    *)

UnitEntry(key, factor) == [key |-> key, factor |-> factor]

\* the converter tables, lines 16-48
_length_converter ==
    <<UnitEntry(<<"a">>, "BOHR * 1e10"),
      UnitEntry(<<"a", "n", "g", "s", "t">>, "BOHR * 1e10"),
      UnitEntry(<<"a", "n", "g", "s", "t", "r", "o", "m">>, "BOHR * 1e10"),
      UnitEntry(<<"m">>, "BOHR"),
      UnitEntry(<<"c", "m">>, "BOHR * 1e2")>>
_freq_converter ==
    <<UnitEntry(<<"c", "m", "-", "1">>, "1e-2 / TIME / LIGHT_SPEED"),
      UnitEntry(<<"c", "m", "^", "-", "1">>, "1e-2 / TIME / LIGHT_SPEED"),
      UnitEntry(<<"h", "z">>, "1.0 / TIME"),
      UnitEntry(<<"m", "h", "z">>, "1e-6 / TIME"),
      UnitEntry(<<"g", "h", "z">>, "1e-9 / TIME"),
      UnitEntry(<<"t", "h", "z">>, "1e-12 / TIME")>>
_time_converter ==
    <<UnitEntry(<<"s">>, "TIME"),
      UnitEntry(<<"u", "s">>, "TIME / 1e-6"),
      UnitEntry(<<"n", "s">>, "TIME / 1e-9")>>
_edipole_converter ==
    <<UnitEntry(<<"d">>, "DEBYE"),
      UnitEntry(<<"d", "e", "b", "y", "e">>, "DEBYE"),
      UnitEntry(<<"c", "m">>, "DEBYE")>>
_equadrupole_converter == <<>>

\* str.lower() on the letters A..Z; every other character is kept
UpperCase ==
    <<"A", "B", "C", "D", "E", "F", "G", "H", "I", "J", "K", "L", "M", "N", "O", "P", "Q", "R", "S", "T", "U", "V", "W", "X", "Y", "Z">>
LowerCase ==
    <<"a", "b", "c", "d", "e", "f", "g", "h", "i", "j", "k", "l", "m", "n", "o", "p", "q", "r", "s", "t", "u", "v", "w", "x", "y", "z">>
LowerChar(c) ==
    IF \E i \in 1..Len(UpperCase) : UpperCase[i] = c
    THEN LowerCase[CHOOSE i \in 1..Len(UpperCase) : UpperCase[i] = c]
    ELSE c
Lower(str) == [k \in 1..Len(str) |-> LowerChar(str[k])]

\* list(converter.keys())
Keys(converter) == [k \in 1..Len(converter) |-> converter[k].key]

\* the available keys taken from the converter that is handed over
_avail_keys_own(converter) == Keys(converter)

\* _avail_keys(converter), line 52: str(list(_length_converter.keys()))
_avail_keys(converter) == Keys(_length_converter)

\* the outcome of a raise ValueError with its message: the unit and the
\* available units
UnknownUnit(unit, avail_units) ==
    [raised |-> "ValueError", val |-> <<>>, unit |-> unit, avail_units |-> avail_units]

\* _converter_to(a, unit, converter): unit is <<>> for None and <<str>>
\* otherwise
_converter_to(a, unit, converter) ==
    IF unit = <<>> THEN Return(a)
    ELSE IF \E k \in 1..Len(converter) : converter[k].key = Lower(unit[1])
    THEN Return([a |-> a,
                 times |-> converter[CHOOSE k \in 1..Len(converter) :
                                        converter[k].key = Lower(unit[1])].factor])
    ELSE UnknownUnit(unit[1], _avail_keys(converter))

time_to(a, unit) == _converter_to(a, unit, _time_converter)
freq_to(a, unit) == _converter_to(a, unit, _freq_converter)
length_to(a, unit) == _converter_to(a, unit, _length_converter)
edipole_to(a, unit) == _converter_to(a, unit, _edipole_converter)
equadrupole_to(a, unit) == _converter_to(a, unit, _equadrupole_converter)

\* the five conversion functions and the call of each
UnitFunctions == {"time_to", "freq_to", "length_to", "edipole_to", "equadrupole_to"}
UnitCall(fn, a, unit) ==
    CASE fn = "time_to" -> time_to(a, unit)
      [] fn = "freq_to" -> freq_to(a, unit)
      [] fn = "length_to" -> length_to(a, unit)
      [] fn = "edipole_to" -> edipole_to(a, unit)
      [] fn = "equadrupole_to" -> equadrupole_to(a, unit)

\* the units handed to the functions: None, every key of every table, and
\* spellings with capitals and names that no table has
UnitInputs ==
    { <<>> }
    \cup { <<Keys(c)[k]>> :
             c \in {_length_converter, _freq_converter, _time_converter,
                    _edipole_converter},
             k \in 1..3 }
    \cup { <<_length_converter[k].key>> : k \in 1..Len(_length_converter) }
    \cup { <<_freq_converter[k].key>> : k \in 1..Len(_freq_converter) }
    \cup { <<<<"A", "n", "g", "s", "t", "r", "o", "m">>>>,
             <<<<"C", "M">>>>,
             <<<<"H", "z">>>>,
             <<<<"D", "E", "B", "Y", "E">>>>,
             <<<<"S">>>>,
             <<<<"C", "M", "^", "-", "1">>>>,
             <<<<"x", "y", "z">>>>,
             <<<<>>>>,
             <<<<"a", "u">>>>,
             <<<<"M">>>> }

InitUnits ==
    /\ s1 = <<>>
    /\ s2 = <<>>
    /\ d1 = <<0, 0, 0, 0>>
    /\ d2 = <<0, 0, 0, 0>>
    /\ nerr = "none"
    /\ bw = NoBackward
    /\ EnvUnused
    /\ ProcIdle

\* the caller converts the quantity a
Convert(fn, a, unit) ==
    /\ last' = [op |-> fn, on |-> "units", a |-> a, unit |-> unit,
                out |-> UnitCall(fn, a, unit)]
    /\ UNCHANGED <<namevars, wrapper, subset, index, procvars>>

NextUnits ==
    \E fn \in UnitFunctions, a \in {"x", "y"}, unit \in UnitInputs : Convert(fn, a, unit)

SpecUnits == InitUnits /\ [][NextUnits]_vars

\* the converter table of each function, as the definitions at lines 65-88
\* name it
OwnConverter(fn) ==
    CASE fn = "time_to" -> _time_converter
      [] fn = "freq_to" -> _freq_converter
      [] fn = "length_to" -> _length_converter
      [] fn = "edipole_to" -> _edipole_converter
      [] fn = "equadrupole_to" -> _equadrupole_converter

\* the factors that a table has for a lower-case name
FactorsOf(converter, u) ==
    { converter[k].factor : k \in { j \in 1..Len(converter) : converter[j].key = u } }

\* C26: each conversion function returns its input unchanged when the unit
\* is None, returns the input times the factor that its own table has for
\* the unit in lower case when the table has it, and otherwise raises
\* ValueError with a message naming the units of its own table.
C26_ConvertOrListOwnUnits ==
    last.on = "units" =>
        IF last.unit = <<>> THEN last.out = Return(last.a)
        ELSE IF FactorsOf(OwnConverter(last.op), Lower(last.unit[1])) # {}
        THEN /\ last.out.raised = "none"
             /\ last.out.val.a = last.a
             /\ last.out.val.times \in FactorsOf(OwnConverter(last.op), Lower(last.unit[1]))
        ELSE /\ last.out.raised = "ValueError"
             /\ last.out.unit = last.unit[1]
             /\ last.out.avail_units = Keys(OwnConverter(last.op))

\* the same without the contents of the list of available units
C26_ConvertOrRaise ==
    last.on = "units" =>
        IF last.unit = <<>> THEN last.out = Return(last.a)
        ELSE IF FactorsOf(OwnConverter(last.op), Lower(last.unit[1])) # {}
        THEN /\ last.out.raised = "none"
             /\ last.out.val.a = last.a
             /\ last.out.val.times \in FactorsOf(OwnConverter(last.op), Lower(last.unit[1]))
        ELSE /\ last.out.raised = "ValueError"
             /\ last.out.unit = last.unit[1]

----------------------------------------------------------------------------
(* Claims on the derivative names and the output shapes *)

\* b ** n
RECURSIVE Pow(_, _)
Pow(b, n) == IF n = 0 THEN 1 ELSE b * Pow(b, n - 1)

\* the output shape when only the markers that start the shortname count
_get_all_intxe_outshape_atstart(x, shortname, nao_tot) ==
    [outshape |-> PyRepeat(<<NDIM>>, _calc_pattern_occurence(shortname, IP, TRUE, FALSE))
                  \o PyRepeat(<<nao_tot>>, 2 * x),
     ncomp |-> Pow(NDIM, _calc_pattern_occurence(shortname, IP, TRUE, FALSE))]

\* LibcintWrapper._get_all_intxe_outshape(x, shortname), with self.nao_tot
_get_all_intxe_outshape(x, shortname, nao_tot) ==
    [outshape |-> PyRepeat(<<NDIM>>, _calc_pattern_occurence(shortname, IP, FALSE, FALSE))
                  \o PyRepeat(<<nao_tot>>, 2 * x),
     ncomp |-> Pow(NDIM, _calc_pattern_occurence(shortname, IP, FALSE, FALSE))]

\* the names derived from shortname in one step by the rules of its
\* operator: r1 and r2, ra1 to rb2, or the grid derivative r
DerivedNames(shortname) ==
    IF shortname \in Int1eShortcuts
    THEN { _get_int1e_deriv_shortname(shortname, m) : m \in Int1eModes }
    ELSE IF shortname \in Int2eShortcuts
    THEN { _get_int2e_deriv_shortname(shortname, m) : m \in Int2eModes }
    ELSE { _get_evalgto_derivname(shortname, "r") }

\* the x of _get_all_intxe_outshape: 1 for int1e, 2 for int2e
ElectronsOf(shortname) == IF shortname \in Int2eShortcuts THEN 2 ELSE 1

\* name has one marker more than shortname and, for the integrals, its
\* output shape has one more leading axis of size 3 and three times the
\* components; for the grid evaluation its shape has one more leading axis
OneMoreAxis(shortname, name) ==
    /\ _calc_pattern_occurence(name, IP, FALSE, FALSE)
          = _calc_pattern_occurence(shortname, IP, FALSE, FALSE) + 1
    /\ \A nao_tot \in 1..MaxNao :
          IF shortname \in Int1eShortcuts \cup Int2eShortcuts
          THEN /\ _get_all_intxe_outshape(ElectronsOf(shortname), name, nao_tot).outshape
                     = <<NDIM>> \o _get_all_intxe_outshape(ElectronsOf(shortname),
                                                         shortname, nao_tot).outshape
               /\ _get_all_intxe_outshape(ElectronsOf(shortname), name, nao_tot).ncomp
                     = 3 * _get_all_intxe_outshape(ElectronsOf(shortname),
                                                   shortname, nao_tot).ncomp
          ELSE \A ngrid \in 1..MaxGrid :
                  _get_evalgto_outshape(name, nao_tot, ngrid)
                     = <<NDIM>> \o _get_evalgto_outshape(shortname, nao_tot, ngrid)

\* C27: for a shortcut derived from a base name, every name derived from
\* it in one step by the rules of its operator, and every name that its
\* backward evaluates, has exactly one more "ip" by _calc_pattern_occurence;
\* _get_all_intxe_outshape then has one more leading axis of size 3 and
\* three times as many components, and the shape of a grid evaluation has
\* one more leading axis.
C27_DerivationAddsOneAxis ==
    /\ \A name \in DerivedNames(s1) : OneMoreAxis(s1, name)
    /\ bw.ran => \A k \in 1..Len(bw.native) : OneMoreAxis(s1, bw.native[k])

\* the backward of "ipkin" has evaluated "ipipkin" and "ipkinip", of two
\* markers each, with shape (3, 3, nao, nao)
C27_Witness ==
    /\ s1 = IP \o <<"k", "i", "n">>
    /\ bw.ran
    /\ bw.native = <<IP \o s1, s1 \o IP>>
    /\ _get_all_intxe_outshape(1, s1 \o IP, 2).outshape = <<3, 3, 2, 2>>
    /\ _get_all_intxe_outshape(1, s1 \o IP, 2).ncomp = 9

----------------------------------------------------------------------------
(* Claims on the two-electron equivalence as a relation *)

\* the two-electron shortcuts with up to MaxDeriv markers
Int2eNames ==
    { Canon2e(d) : d \in { e \in [1..4 -> 0..MaxDeriv] : Total(e) <= MaxDeriv } }

\* C28: _int2e_shortname_equiv(s1, s2) is None exactly when
\* _int2e_shortname_equiv(s2, s1) is None; when both are lists, the swaps
\* of (s1, s2) followed by the swaps of (s2, s1) leave the trailing four
\* axes where they were; every name is related to itself, and two names
\* related to a third are related to each other.
C28_EquivIsSymmetricWithInverseSwaps ==
    LET fwd == _int2e_shortname_equiv(s1, s2)
        back == _int2e_shortname_equiv(s2, s1)
    IN  /\ (fwd = None) <=> (back = None)
        /\ fwd # None =>
              _transpose(_transpose(<<-4, -3, -2, -1>>, fwd.axes), back.axes)
                 = <<-4, -3, -2, -1>>
        /\ _int2e_shortname_equiv(s1, s1) # None
        /\ _int2e_shortname_equiv(s2, s2) # None
        /\ \A s3 \in Int2eNames :
              (fwd # None /\ _int2e_shortname_equiv(s2, s3) # None)
                 => _int2e_shortname_equiv(s1, s3) # None

\* "ipar12b" and "ar12bip": the swaps one way end with the swap of the
\* right part, the swaps back with the swap of the left part
C28_Witness ==
    /\ s1 = IP \o Int2eBaseName
    /\ s2 = Int2eBaseName \o IP
    /\ _int2e_shortname_equiv(s1, s2) = AxesList(<<<<-4, -2>>, <<-3, -1>>, <<-1, -2>>>>)
    /\ _int2e_shortname_equiv(s2, s1) = AxesList(<<<<-4, -2>>, <<-3, -1>>, <<-3, -4>>>>)

----------------------------------------------------------------------------
(* Claims on the layout of env *)

\* a region of env: the offsets lo..hi-1
Region(lo, n) == [lo |-> lo, hi |-> lo + n]

\* the regions that the tables of w point to: the coordinates of each atom
\* (column 1 of atm), the exponents and the coefficients of each shell
\* (columns 5 and 6 of bas, ngauss in column 2)
CoordRegion(w, i) == Region(w._atm[i][2], NDIM)
ExpRegion(w, k) == Region(w._bas[k][6], w._bas[k][3])
CoeffRegion(w, k) == Region(w._bas[k][7], w._bas[k][3])
EnvRegions(w) ==
    [i \in 1..Len(w._atm) |-> CoordRegion(w, i)]
    \o [k \in 1..Len(w._bas) |-> ExpRegion(w, k)]
    \o [k \in 1..Len(w._bas) |-> CoeffRegion(w, k)]

\* two regions share an offset
Overlap(r, q) == \E o \in r.lo..(r.hi - 1) : o >= q.lo /\ o < q.hi

\* C29: in every environment built, env has 20 + 4 * natoms + 2 * (number
\* of primitives) entries; the coordinates of every atom and the exponents
\* and coefficients of every shell lie inside env at offsets from 20 on;
\* no two of these regions share an offset; the coefficients of a shell
\* start where its exponents end; and none of the regions shares an offset
\* with the centre region PTR_RINV_ORIG..PTR_RINV_ORIG+2.
C29_EnvLayout ==
    Built(wrapper) =>
        /\ Len(wrapper._env) = PTR_ENV_START + 4 * wrapper._natoms
                               + 2 * PySum(wrapper._ngauss_at_shell_list)
        /\ Len(wrapper._atm) = wrapper._natoms
        /\ Len(wrapper._bas) = Len(wrapper._ngauss_at_shell_list)
        /\ \A n \in 1..Len(EnvRegions(wrapper)) :
              /\ EnvRegions(wrapper)[n].lo >= PTR_ENV_START
              /\ EnvRegions(wrapper)[n].hi <= Len(wrapper._env)
              /\ EnvRegions(wrapper)[n].hi > EnvRegions(wrapper)[n].lo
              /\ ~Overlap(EnvRegions(wrapper)[n], Region(PTR_RINV_ORIG, NDIM))
        /\ \A n, m \in 1..Len(EnvRegions(wrapper)) :
              n # m => ~Overlap(EnvRegions(wrapper)[n], EnvRegions(wrapper)[m])
        /\ \A k \in 1..Len(wrapper._bas) :
              /\ wrapper._bas[k][3] = wrapper._ngauss_at_shell_list[k]
              /\ CoeffRegion(wrapper, k).lo = ExpRegion(wrapper, k).hi

\* an environment of two atoms has been built, the first with a shell of
\* two primitives followed by another shell
C29_Witness ==
    /\ Built(wrapper)
    /\ last.op = "__init__"
    /\ wrapper._natoms = 2
    /\ Len(wrapper._bas) >= 3
    /\ wrapper._bas[1][3] = 2
    /\ wrapper._bas[2][1] = 0
    /\ ExpRegion(wrapper, 1) = Region(PTR_ENV_START + 4, 2)
    /\ CoeffRegion(wrapper, 1) = Region(PTR_ENV_START + 6, 2)
    /\ ExpRegion(wrapper, 2).lo = PTR_ENV_START + 8

----------------------------------------------------------------------------
(* Claims on the orbital maps *)

\* the maps of a built environment w: nao entries each, non-decreasing,
\* orbital a inside the offsets of its shell, and owned by the atom of
\* that shell
OrbitalMapsWellFormed(w) ==
    LET offs == w._shell_to_aoloc
        nao_tot == offs[Len(offs)]
    IN  /\ Len(w._ao_to_shell) = nao_tot
        /\ Len(w._ao_to_atom) = nao_tot
        /\ \A a \in 1..(nao_tot - 1) :
              /\ w._ao_to_shell[a] <= w._ao_to_shell[a + 1]
              /\ w._ao_to_atom[a] <= w._ao_to_atom[a + 1]
        /\ \A a \in 0..(nao_tot - 1) :
              /\ w._ao_to_shell[a + 1] \in 0..(Len(w._bas) - 1)
              /\ offs[w._ao_to_shell[a + 1] + 1] <= a
              /\ a < offs[w._ao_to_shell[a + 1] + 2]
              /\ w._ao_to_atom[a + 1] = w._bas[w._ao_to_shell[a + 1] + 1][1]

\* the outcome of a map accessor on the view: the entries of the parent's
\* map full_map at the orbitals of the view, nao() of the view in number
RestrictedToView(full_map) ==
    /\ last.out.raised = "none"
    /\ nao(subset).raised = "none"
    /\ Len(last.out.val) = nao(subset).val
    /\ \A k \in 1..Len(last.out.val) :
          last.out.val[k] = full_map[ao_idxs(subset).val[1] + k]

\* C30: in every environment built, ao_to_shell and ao_to_atom have nao
\* entries, are non-decreasing, place every orbital inside the offsets of
\* its shell and give it the atom of that shell; ao_to_atom() and
\* ao_to_shell() of a view return the parent's maps restricted to the
\* orbital range of the view, nao() of the view in length.
C30_OrbitalMaps ==
    /\ OrbitalMapsWellFormed(wrapper)
    /\ (last.on = "subset" /\ last.op = "ao_to_atom")
          => RestrictedToView(wrapper._ao_to_atom)
    /\ (last.on = "subset" /\ last.op = "ao_to_shell")
          => RestrictedToView(wrapper._ao_to_shell)

\* the same for the views that cover shells of their parent
C30_InsideParent ==
    /\ OrbitalMapsWellFormed(wrapper)
    /\ (last.on = "subset" /\ last.op = "ao_to_atom" /\ ViewInsideParent)
          => RestrictedToView(wrapper._ao_to_atom)
    /\ (last.on = "subset" /\ last.op = "ao_to_shell" /\ ViewInsideParent)
          => RestrictedToView(wrapper._ao_to_shell)

\* the maps of every environment that __init__ has built
C30_BuiltMaps == Built(wrapper) => OrbitalMapsWellFormed(wrapper)

====
